---- MODULE Spec2Model ----
(***************************************************************************)
(* Model of llm_patch_driver: the addressable document (sentence map /     *)
(* JSON attribute map), the patch operations, PatchTarget, PatchDriver and *)
(* PatchDriver.run_patching_loop.                                          *)
(*                                                                         *)
(* Strings are sequences of characters of a small alphabet.  A character  *)
(* that stands for a run of ordinary letters is written as a word          *)
(* ("Hello"); NL is the line break and DOT the sentence terminator.        *)
(***************************************************************************)
EXTENDS Integers, Sequences, FiniteSets, TLC

VARIABLES
    mode,            \* "str" (validation_schema is None) or "json"
    content,         \* PatchTarget.content (the live object)
    original_state,  \* PatchDriver._original_state
    backup_copy,     \* PatchTarget._backup_copy
    d_map,           \* PatchDriver._map
    d_annotated,     \* PatchDriver._annotated
    d_error,         \* PatchDriver._current_error
    t_map,           \* PatchTarget._lookup_map
    t_annotated,     \* PatchTarget._annotated
    iteration,       \* PatchTarget._iteration
    t_error,         \* PatchTarget.current_error
    validator,       \* the validation_condition the target was built with
    api,             \* what the caller drives: "driver", "target" or "loop"
    last_call,       \* the API call in progress: its arguments, pre-state and outcome
    pc,              \* position of run_patching_loop
    state_id,        \* its local state_id
    message_history, \* the list the caller passed
    messages,        \* its local messages list
    last_request,    \* the messages of the latest create_message call
    pending,         \* tool calls of the current turn not yet dispatched
    raw_tool_data,   \* its local raw_tool_data list
    outcome          \* how run_patching_loop ended

objVars == <<mode, content, original_state, backup_copy, d_map, d_annotated, d_error,
             t_map, t_annotated, iteration, t_error, validator>>
driverVars == <<content, original_state, d_map, d_annotated>>
targetVars == <<t_map, t_annotated, iteration, t_error>>
loopVars == <<pc, state_id, message_history, messages, last_request, pending,
              raw_tool_data, outcome>>
vars == <<objVars, api, last_call, loopVars>>

(***************************************************************************)
(* Strings                                                                 *)
(***************************************************************************)
NL == "\n"
DOT == "."

Max(S) == CHOOSE x \in S : \A y \in S : y <= x

\* index of the first occurrence of character c in s, 0 if there is none
IndexOf(s, c) ==
    IF \E i \in 1..Len(s) : s[i] = c
    THEN CHOOSE i \in 1..Len(s) : s[i] = c /\ \A j \in 1..(i - 1) : s[j] # c
    ELSE 0

\* str.splitlines(): a final line break opens no further line, "" has no line
RECURSIVE splitlines(_)
splitlines(text) ==
    IF text = <<>> THEN <<>>
    ELSE LET i == IndexOf(text, NL)
         IN  IF i = 0 THEN <<text>>
             ELSE <<SubSeq(text, 1, i - 1)>> \o splitlines(SubSeq(text, i + 1, Len(text)))

\* "\n".join(lines)
RECURSIVE join_lines(_)
join_lines(lines) ==
    IF lines = <<>> THEN <<>>
    ELSE IF Len(lines) = 1 THEN lines[1]
    ELSE lines[1] \o <<NL>> \o join_lines(Tail(lines))

\* "".join(sents)
RECURSIVE concat(_)
concat(ss) == IF ss = <<>> THEN <<>> ELSE ss[1] \o concat(Tail(ss))

\* [s.text for s in doc.sents]: the sentencizer closes a sentence after every
\* DOT; the empty document has no sentence.
RECURSIVE doc_sents(_)
doc_sents(s) ==
    IF s = <<>> THEN <<>>
    ELSE LET i == IndexOf(s, DOT)
         IN  IF i = 0 THEN <<s>>
             ELSE <<SubSeq(s, 1, i)>> \o doc_sents(SubSeq(s, i + 1, Len(s)))

\* [s.text for s in doc.sents] or [text]
sents_or_text(s) == IF doc_sents(s) = <<>> THEN <<s>> ELSE doc_sents(s)

\* does pat occur in s at position i
MatchAt(s, pat, i) ==
    /\ i + Len(pat) - 1 <= Len(s)
    /\ \A k \in 1..Len(pat) : s[i + k - 1] = pat[k]

\* a replace of the first occurrence only
str_replace_first(s, pat, repl) ==
    IF \E i \in 1..Len(s) : MatchAt(s, pat, i)
    THEN LET i == CHOOSE i \in 1..Len(s) :
                      MatchAt(s, pat, i) /\ \A j \in 1..(i - 1) : ~MatchAt(s, pat, j)
         IN  SubSeq(s, 1, i - 1) \o repl \o SubSeq(s, i + Len(pat), Len(s))
    ELSE s

\* str.replace(pat, repl): every non-overlapping occurrence, left to right;
\* the empty pattern occurs before every character and at the end
RECURSIVE str_replace(_, _, _)
str_replace(s, pat, repl) ==
    IF pat = <<>>
    THEN repl \o (IF s = <<>> THEN <<>> ELSE <<s[1]>> \o str_replace(Tail(s), pat, repl))
    ELSE IF s = <<>> THEN <<>>
    ELSE IF MatchAt(s, pat, 1)
         THEN repl \o str_replace(SubSeq(s, Len(pat) + 1, Len(s)), pat, repl)
         ELSE <<s[1]>> \o str_replace(Tail(s), pat, repl)

(***************************************************************************)
(* Sentence map: line number -> (sentence number -> sentence)               *)
(***************************************************************************)
EmptyMap == [k \in {} |-> <<>>]

\* SortedDict item assignment d[k] = v
Put(m, k, v) == [x \in (DOMAIN m) \cup {k} |-> IF x = k THEN v ELSE m[x]]

\* the keys of a SortedDict in iteration order
RECURSIVE SortedKeys(_)
SortedKeys(S) ==
    IF S = {} THEN <<>>
    ELSE LET lo == CHOOSE x \in S : \A y \in S : x <= y
         IN  <<lo>> \o SortedKeys(S \ {lo})

build_map(text) ==
    LET lines == splitlines(text)
    IN  [line_idx \in 1..Len(lines) |->
            LET line_sents == sents_or_text(lines[line_idx])
            IN  [sid \in 1..Len(line_sents) |-> line_sents[sid]]]

\* the sentences of one line, in key order
RECURSIVE line_items(_, _)
line_items(line_map, keys) ==
    IF keys = <<>> THEN <<>>
    ELSE <<line_map[keys[1]]>> \o line_items(line_map, Tail(keys))

RECURSIVE assemble_lines(_, _)
assemble_lines(m, keys) ==
    IF keys = <<>> THEN <<>>
    ELSE <<concat(line_items(m[keys[1]], SortedKeys(DOMAIN m[keys[1]])))>>
         \o assemble_lines(m, Tail(keys))

\* PatchDriver._assemble_text / StrPatch.content_from_map
assemble_text(m) == join_lines(assemble_lines(m, SortedKeys(DOMAIN m)))

\* one "<tid=L_S>sentence</tid>" part per sentence, as <<L, S, sentence>>
RECURSIVE annotate_line(_, _, _)
annotate_line(line_id, line_map, keys) ==
    IF keys = <<>> THEN <<>>
    ELSE <<<<line_id, keys[1], line_map[keys[1]]>>>>
         \o annotate_line(line_id, line_map, Tail(keys))

RECURSIVE annotate_lines(_, _)
annotate_lines(m, keys) ==
    IF keys = <<>> THEN <<>>
    ELSE annotate_line(keys[1], m[keys[1]], SortedKeys(DOMAIN m[keys[1]]))
         \o annotate_lines(m, Tail(keys))

build_annotation(m) == annotate_lines(m, SortedKeys(DOMAIN m))

(***************************************************************************)
(* String patches.  A patch is [tids, operation]; tids are <<line, sent>>  *)
(* pairs (StrPatch._parsed_tids), operation is [type, pattern,             *)
(* replacement, text] with the fields its type does not use left empty.    *)
(***************************************************************************)
ReplaceOp(pat, repl) == [type |-> "replace", pattern |-> pat, replacement |-> repl, text |-> <<>>]
DeleteOp == [type |-> "delete", pattern |-> <<>>, replacement |-> <<>>, text |-> <<>>]
InsertAfterOp(t) == [type |-> "insert_after", pattern |-> <<>>, replacement |-> <<>>, text |-> t]
StrPatch(tids, operation) == [tids |-> tids, operation |-> operation]

\* outcome of a step on the map: the map it leaves, and whether it raised
Ok(m) == [ok |-> TRUE, map |-> m]
Raised(m) == [ok |-> FALSE, map |-> m]

\* ReplaceOp: for line, sent in parsed_tids: map[line][sent] = segment.replace(pat, repl)
RECURSIVE apply_replace(_, _, _, _)
apply_replace(m, tids, pat, repl) ==
    IF tids = <<>> THEN Ok(m)
    ELSE LET line == tids[1][1]
             sent == tids[1][2]
         IN  IF line \notin DOMAIN m \/ sent \notin DOMAIN m[line]
             THEN Raised(m)
             ELSE apply_replace(
                      Put(m, line, Put(m[line], sent, str_replace(m[line][sent], pat, repl))),
                      Tail(tids), pat, repl)

\* sorted(parsed_tids, key=lambda x: (x[0], x[1]), reverse=True)
TidLess(a, b) == a[1] < b[1] \/ (a[1] = b[1] /\ a[2] < b[2])

RECURSIVE InsertDesc(_, _)
InsertDesc(sorted, t) ==
    IF sorted = <<>> THEN <<t>>
    ELSE IF TidLess(sorted[1], t) THEN <<t>> \o sorted
    ELSE <<sorted[1]>> \o InsertDesc(Tail(sorted), t)

RECURSIVE sorted_reverse(_)
sorted_reverse(tids) ==
    IF tids = <<>> THEN <<>>
    ELSE InsertDesc(sorted_reverse(SubSeq(tids, 1, Len(tids) - 1)), tids[Len(tids)])

\* del d[key] without moving the larger keys down
DropKey_keep_numbers(d, key) == [k \in (DOMAIN d) \ {key} |-> d[k]]

\* del d[key]; then every larger key moves down by one
DropKey(d, key) ==
    [k \in {IF x > key THEN x - 1 ELSE x : x \in (DOMAIN d) \ {key}} |->
        IF k + 1 \in DOMAIN d /\ k + 1 > key THEN d[k + 1] ELSE d[k]]

\* DeleteOp, one tid: delete the sentence and renumber the line; an emptied
\* line is deleted and the lines below it move up
delete_sentence(m, line, sent) ==
    IF line \notin DOMAIN m \/ sent \notin DOMAIN m[line]
    THEN Raised(m)
    ELSE LET line_map == DropKey(m[line], sent)
         IN  IF DOMAIN line_map = {}
             THEN Ok(DropKey(m, line))
             ELSE Ok(Put(m, line, line_map))

RECURSIVE delete_each(_, _)
delete_each(m, tids) ==
    IF tids = <<>> THEN Ok(m)
    ELSE LET r == delete_sentence(m, tids[1][1], tids[1][2])
         IN  IF r.ok THEN delete_each(r.map, Tail(tids)) ELSE r

apply_delete(m, tids) == delete_each(m, sorted_reverse(tids))

\* an InsertAfter that opens no slot
shift_lines_none(m, idx, anchor_line) == Ok(m)

\* for idx in range(max_line, anchor_line, -1): map[idx + 1] = map[idx]
\* (a missing idx is a KeyError; the lines are copied by value here, where
\* Python leaves lines idx and idx + 1 sharing one SortedDict until the new
\* line overwrites the anchor's successor)
RECURSIVE shift_lines(_, _, _)
shift_lines(m, idx, anchor_line) ==
    IF idx <= anchor_line THEN Ok(m)
    ELSE IF idx \notin DOMAIN m THEN Raised(m)
    ELSE shift_lines(Put(m, idx + 1, m[idx]), idx - 1, anchor_line)

\* InsertAfterOp: a new line after the line of the last tid
apply_insert_after(m, tids, text) ==
    LET anchor_line == tids[Len(tids)][1]
        max_line == IF DOMAIN m = {} THEN 0 ELSE Max(DOMAIN m)
        shifted == shift_lines(m, max_line, anchor_line)
        new_sents == sents_or_text(text)
    IN  IF ~shifted.ok THEN shifted
        ELSE Ok(Put(shifted.map, anchor_line + 1,
                    [sid \in 1..Len(new_sents) |-> new_sents[sid]]))

\* PatchDriver._apply_patch / StrPatch.apply_patch, string patch
apply_str_patch(m, patch) ==
    CASE patch.operation.type = "replace" ->
             apply_replace(m, patch.tids, patch.operation.pattern, patch.operation.replacement)
      [] patch.operation.type = "delete" -> apply_delete(m, patch.tids)
      [] patch.operation.type = "insert_after" ->
             apply_insert_after(m, patch.tids, patch.operation.text)

\* for patch in patches: apply(patch) -- stops at the first patch that raises
RECURSIVE apply_str_patches(_, _)
apply_str_patches(m, patches) ==
    IF patches = <<>> THEN Ok(m)
    ELSE LET r == apply_str_patch(m, patches[1])
         IN  IF r.ok THEN apply_str_patches(r.map, Tail(patches)) ELSE r

\* the sort key (priority, -anchor_line)
priority(type) ==
    CASE type = "replace" -> 0
      [] type = "delete" -> 1
      [] type = "insert_after" -> 2
      [] OTHER -> 99

anchor_line_of(patch) ==
    IF patch.operation.type = "insert_after"
    THEN patch.tids[Len(patch.tids)][1]
    ELSE patch.tids[1][1]

\* a key that sorts the patches of one priority by ascending anchor line
KeyLess_ascending(p, q) ==
    \/ priority(p.operation.type) < priority(q.operation.type)
    \/ /\ priority(p.operation.type) = priority(q.operation.type)
       /\ anchor_line_of(p) < anchor_line_of(q)

KeyLess(p, q) ==
    \/ priority(p.operation.type) < priority(q.operation.type)
    \/ /\ priority(p.operation.type) = priority(q.operation.type)
       /\ -anchor_line_of(p) < -anchor_line_of(q)

\* sorted() is stable: a patch goes after every patch whose key is not larger
RECURSIVE InsertByKey(_, _)
InsertByKey(sorted, p) ==
    IF sorted = <<>> THEN <<p>>
    ELSE IF KeyLess(p, sorted[1]) THEN <<p>> \o sorted
    ELSE <<sorted[1]>> \o InsertByKey(Tail(sorted), p)

RECURSIVE stable_sort(_)
stable_sort(patches) ==
    IF patches = <<>> THEN <<>>
    ELSE InsertByKey(stable_sort(SubSeq(patches, 1, Len(patches) - 1)), patches[Len(patches)])

\* PatchDriver._sort_patches: the key reads p.operation, which a JsonPatch
\* does not have (AttributeError); an empty list is sorted without a key call
\* the patches applied in the caller's order
sort_patches_unsorted(patches) == [ok |-> TRUE, patches |-> patches]

sort_patches(patches) ==
    IF \E i \in 1..Len(patches) : "operation" \notin DOMAIN patches[i]
    THEN [ok |-> FALSE, patches |-> patches]
    ELSE [ok |-> TRUE, patches |-> stable_sort(patches)]

\* ModdedPatchBundle._check_ids, string patches: every tid is in the map
tids_in_map(m, tids) ==
    \A i \in 1..Len(tids) : tids[i][1] \in DOMAIN m /\ tids[i][2] \in DOMAIN m[tids[i][1]]

check_str_ids(m, patches) ==
    \A i \in 1..Len(patches) : patches[i].tids # <<>> /\ tids_in_map(m, patches[i].tids)

(***************************************************************************)
(* JSON documents.  An object is its key/value pairs in insertion order,   *)
(* a key is a string of characters.                                        *)
(***************************************************************************)
JVal(v) == [t |-> "val", v |-> v]
JArr(items) == [t |-> "arr", items |-> items]
JObj(kv) == [t |-> "obj", kv |-> kv]
KV(k, v) == [k |-> k, v |-> v]

Digits == <<"0", "1", "2", "3", "4", "5", "6", "7", "8", "9">>

\* str(n) for a one-digit n
IntToStr(n) == <<Digits[n + 1]>>

\* a _json_pointer that leaves '~' and '/' of a key as they are
json_pointer_key_raw(parent, key) == parent \o <<"/">> \o key

\* _json_pointer(parent, token), token a key: '~' -> '~0', then '/' -> '~1'
json_pointer_key(parent, key) ==
    parent \o <<"/">> \o str_replace(str_replace(key, <<"~">>, <<"~", "0">>), <<"/">>, <<"~", "1">>)

\* _json_pointer(parent, token), token an array position
json_pointer_index(parent, idx) == parent \o <<"/">> \o IntToStr(idx)

\* build_json_annotation_and_map: the annotated copy and the id -> path map.
\* An annotated key is <<"a", id, key>>, an annotated scalar element <<"i", idx, value>>.
RECURSIVE build_json(_, _, _, _)
RECURSIVE build_json_dict(_, _, _, _, _, _)
RECURSIVE build_json_list(_, _, _, _, _, _)

build_json(data, attr_idx_start, path, attr_map) ==
    IF data.t = "obj" THEN build_json_dict(data.kv, 1, attr_idx_start, path, attr_map, <<>>)
    ELSE IF data.t = "arr" THEN build_json_list(data.items, 1, attr_idx_start, path, attr_map, <<>>)
    ELSE [ann |-> data, map |-> attr_map]

build_json_dict(kv, i, attr_idx, path, attr_map, acc) ==
    IF i > Len(kv) THEN [ann |-> JObj(acc), map |-> attr_map]
    ELSE LET key == kv[i].k
             here == json_pointer_key(path, key)
             r == build_json(kv[i].v, attr_idx + 1, here, Put(attr_map, attr_idx, here))
         IN  build_json_dict(kv, i + 1, Max(DOMAIN r.map) + 1, path, r.map,
                             Append(acc, KV(<<"a", attr_idx, key>>, r.ann)))

build_json_list(items, item_idx, attr_idx_start, path, attr_map, acc) ==
    IF item_idx > Len(items) THEN [ann |-> JArr(acc), map |-> attr_map]
    ELSE LET element == items[item_idx]
         IN  IF element.t \in {"obj", "arr"}
             THEN LET next_free_id == IF DOMAIN attr_map # {} THEN Max(DOMAIN attr_map) + 1
                                      ELSE attr_idx_start
                      r == build_json(element, next_free_id,
                                      json_pointer_index(path, item_idx - 1), attr_map)
                  IN  build_json_list(items, item_idx + 1, attr_idx_start, path, r.map,
                                      Append(acc, r.ann))
             ELSE build_json_list(items, item_idx + 1, attr_idx_start, path, attr_map,
                                  Append(acc, <<"i", item_idx, element.v>>))

build_json_annotation_and_map(data) == build_json(data, 1, <<>>, EmptyMap)

(***************************************************************************)
(* jsonpatch.JsonPatch([op_dict]).apply(content, in_place=True)            *)
(***************************************************************************)
\* pointer.split('/') without the leading empty part
RECURSIVE split_pointer(_)
split_pointer(s) ==
    LET i == IndexOf(s, "/")
    IN  IF i = 0 THEN <<s>>
        ELSE <<SubSeq(s, 1, i - 1)>> \o split_pointer(SubSeq(s, i + 1, Len(s)))

\* unescape: '~1' -> '/', then '~0' -> '~'
unescape(part) == str_replace(str_replace(part, <<"~", "1">>, <<"/">>), <<"~", "0">>, <<"~">>)

pointer_parts(path) ==
    LET raw == Tail(split_pointer(path))
    IN  [i \in 1..Len(raw) |-> unescape(raw[i])]

\* the array position a reference token denotes, -1 if it is not an array index
array_index(part) ==
    IF Len(part) = 1 /\ \E d \in 1..10 : Digits[d] = part[1]
    THEN (CHOOSE d \in 1..10 : Digits[d] = part[1]) - 1
    ELSE -1

KeyPos(kv, key) ==
    IF \E j \in 1..Len(kv) : kv[j].k = key
    THEN CHOOSE j \in 1..Len(kv) : kv[j].k = key
    ELSE 0

RemoveAt(seq, j) == SubSeq(seq, 1, j - 1) \o SubSeq(seq, j + 1, Len(seq))
InsertAt(seq, j, x) == SubSeq(seq, 1, j - 1) \o <<x>> \o SubSeq(seq, j, Len(seq))

JOk(doc) == [ok |-> TRUE, doc |-> doc]
JRaised(doc) == [ok |-> FALSE, doc |-> doc]

\* the operation on the container the pointer ends in
json_op_last(doc, part, op, value) ==
    IF doc.t = "obj"
    THEN LET j == KeyPos(doc.kv, part)
         IN  CASE op = "replace" ->
                      IF j = 0 THEN JRaised(doc)
                      ELSE JOk(JObj([doc.kv EXCEPT ![j] = KV(part, value)]))
               [] op = "add" ->
                      IF j = 0 THEN JOk(JObj(Append(doc.kv, KV(part, value))))
                      ELSE JOk(JObj([doc.kv EXCEPT ![j] = KV(part, value)]))
               [] op = "remove" ->
                      IF j = 0 THEN JRaised(doc) ELSE JOk(JObj(RemoveAt(doc.kv, j)))
    ELSE IF doc.t = "arr"
    THEN LET n == array_index(part)
         IN  CASE op = "replace" ->
                      IF n < 0 \/ n >= Len(doc.items) THEN JRaised(doc)
                      ELSE JOk(JArr([doc.items EXCEPT ![n + 1] = value]))
               [] op = "add" ->
                      IF part = <<"-">> THEN JOk(JArr(Append(doc.items, value)))
                      ELSE IF n < 0 \/ n > Len(doc.items) THEN JRaised(doc)
                      ELSE JOk(JArr(InsertAt(doc.items, n + 1, value)))
               [] op = "remove" ->
                      IF n < 0 \/ n >= Len(doc.items) THEN JRaised(doc)
                      ELSE JOk(JArr(RemoveAt(doc.items, n + 1)))
    ELSE JRaised(doc)

\* walk the pointer to the last container, then operate there
RECURSIVE json_op_at(_, _, _, _)
json_op_at(doc, parts, op, value) ==
    IF Len(parts) = 1 THEN json_op_last(doc, parts[1], op, value)
    ELSE IF doc.t = "obj"
    THEN LET j == KeyPos(doc.kv, parts[1])
         IN  IF j = 0 THEN JRaised(doc)
             ELSE LET r == json_op_at(doc.kv[j].v, Tail(parts), op, value)
                  IN  IF r.ok THEN JOk(JObj([doc.kv EXCEPT ![j] = KV(parts[1], r.doc)]))
                      ELSE JRaised(doc)
    ELSE IF doc.t = "arr"
    THEN LET n == array_index(parts[1])
         IN  IF n < 0 \/ n >= Len(doc.items) THEN JRaised(doc)
             ELSE LET r == json_op_at(doc.items[n + 1], Tail(parts), op, value)
                  IN  IF r.ok THEN JOk(JArr([doc.items EXCEPT ![n + 1] = r.doc]))
                      ELSE JRaised(doc)
    ELSE JRaised(doc)

(***************************************************************************)
(* JSON patches: [op, a_id, i_id, value].  An Optional[int] is <<>> (None)  *)
(* or <<n>>; the value None is JNull.                                      *)
(***************************************************************************)
JNull == [t |-> "null"]
NoItem == <<>>
Item(n) == <<n>>

JsonPatch(op, a_id, i_id, value) == [op |-> op, a_id |-> a_id, i_id |-> i_id, value |-> value]

\* an _apply_patch that takes the item id as the array position itself
apply_json_patch_zero_based(doc, id_map, patch) ==
    IF patch.a_id \notin DOMAIN id_map THEN JRaised(doc)
    ELSE LET path == IF patch.i_id # NoItem
                     THEN id_map[patch.a_id] \o <<"/">> \o IntToStr(patch.i_id[1])
                     ELSE id_map[patch.a_id]
         IN  json_op_at(doc, pointer_parts(path), patch.op, patch.value)

\* PatchDriver._apply_patch, JSON patch, on the live document
apply_json_patch(doc, id_map, patch) ==
    IF patch.a_id \notin DOMAIN id_map THEN JRaised(doc)
    ELSE LET path == IF patch.i_id # NoItem
                     THEN id_map[patch.a_id] \o <<"/">> \o IntToStr(patch.i_id[1] - 1)
                     ELSE id_map[patch.a_id]
         IN  json_op_at(doc, pointer_parts(path), patch.op, patch.value)

\* for patch in patches: apply(patch), every path taken from the same map
RECURSIVE apply_json_patches(_, _, _)
apply_json_patches(doc, id_map, patches) ==
    IF patches = <<>> THEN JOk(doc)
    ELSE LET r == apply_json_patch(doc, id_map, patches[1])
         IN  IF r.ok THEN apply_json_patches(r.doc, id_map, Tail(patches)) ELSE r

\* ModdedPatchBundle._check_ids, JSON patches
check_json_ids(id_map, patches) ==
    \A i \in 1..Len(patches) : patches[i].a_id # 0 /\ patches[i].a_id \in DOMAIN id_map


(***************************************************************************)
(* Inputs                                                                  *)
(***************************************************************************)
MaxLines == 3   \* a batch is not offered when it would grow the map beyond this

\* "Hello world.\nThis is a test." and "Hello world.Bye.\nThis is a test."
Text1 == <<"Hello", " world", DOT, NL, "This is a test", DOT>>
Text2 == <<"Hello", " world", DOT, "Bye", DOT, NL, "This is a test", DOT>>
Texts == {Text2}

NewLineText == <<"New line", DOT>>

ReplacePatches == {StrPatch(<<t>>, ReplaceOp(<<"Hello">>, <<"Hi">>)) :
                       t \in {<<1, 1>>, <<3, 1>>}}
DeletePatches == {StrPatch(ts, DeleteOp) :
                       ts \in {<<<<1, 1>>>>, <<<<1, 2>>>>, <<<<2, 1>>>>,
                               <<<<1, 1>>, <<1, 2>>>>, <<<<1, 1>>, <<2, 1>>>>}}
InsertPatches == {StrPatch(ts, InsertAfterOp(NewLineText)) :
                       ts \in {<<<<1, 1>>>>, <<<<1, 2>>>>, <<<<2, 1>>>>, <<<<3, 1>>>>,
                               <<<<2, 1>>, <<1, 1>>>>}}
StrPatches == ReplacePatches \cup DeletePatches \cup InsertPatches

\* the six orders of one Replace, one Delete and one InsertAfter
Perms3(a, b, c) == {<<a, b, c>>, <<a, c, b>>, <<b, a, c>>, <<b, c, a>>, <<c, a, b>>, <<c, b, a>>}

TriplePatches ==
    UNION {Perms3(StrPatch(<<<<1, 1>>>>, ReplaceOp(<<"Hello">>, <<"Hi">>)), d, i) :
               d \in {StrPatch(<<<<2, 1>>>>, DeleteOp), StrPatch(<<<<1, 2>>>>, DeleteOp)},
               i \in {StrPatch(<<<<1, 1>>>>, InsertAfterOp(NewLineText)),
                      StrPatch(<<<<2, 1>>>>, InsertAfterOp(NewLineText))}}

\* a Replace whose replacement holds a line break: "Hello" -> "Hi\nYo"
BreakPatches == {StrPatch(<<<<1, 1>>>>, ReplaceOp(<<"Hello">>, <<"Hi", NL, "Yo">>))}

StrBatches ==
    {<<>>} \cup {<<p>> : p \in StrPatches \cup BreakPatches}
    \cup {<<p, q>> : p, q \in StrPatches} \cup TriplePatches

InsertCount(patches) ==
    Cardinality({i \in 1..Len(patches) : patches[i].operation.type = "insert_after"})

\* {"a": "x", "b": ["1", "2"]} and {"a": "1", "b": {"c": ["2", "3"]}}
Doc1 == JObj(<<KV(<<"a">>, JVal("x")), KV(<<"b">>, JArr(<<JVal("1"), JVal("2")>>))>>)
Doc2 == JObj(<<KV(<<"a">>, JVal("1")),
               KV(<<"b">>, JObj(<<KV(<<"c">>, JArr(<<JVal("2"), JVal("3")>>))>>))>>)
Docs == {Doc1}

MaxNodes == 6   \* a batch is not offered when it could grow the document beyond this
MaxIteration == 2   \* PatchTarget.apply_patches is not called beyond this _iteration

RECURSIVE json_size(_)
RECURSIVE json_size_seq(_)
json_size(doc) ==
    IF doc.t = "obj" THEN 1 + json_size_seq([i \in 1..Len(doc.kv) |-> doc.kv[i].v])
    ELSE IF doc.t = "arr" THEN 1 + json_size_seq(doc.items)
    ELSE 1
json_size_seq(vs) == IF vs = <<>> THEN 0 ELSE json_size(vs[1]) + json_size_seq(Tail(vs))

JsonPatches ==
    {JsonPatch("replace", a, NoItem, JVal("y")) : a \in 1..3}
    \cup {JsonPatch("add", a, i, JVal("y")) : a \in 1..3, i \in {NoItem, Item(1), Item(3)}}
    \cup {JsonPatch("remove", a, i, JNull) : a \in 1..3, i \in {NoItem, Item(1), Item(3)}}

\* the patches offered in batches of two
JsonPairPatches ==
    {JsonPatch("replace", 1, NoItem, JVal("y")), JsonPatch("add", 2, Item(3), JVal("y")),
     JsonPatch("remove", 2, Item(3), JNull), JsonPatch("remove", 3, NoItem, JNull)}

JsonBatches ==
    {<<>>} \cup {<<p>> : p \in JsonPairPatches} \cup {<<p, q>> : p, q \in JsonPairPatches}

AddCount(patches) == Cardinality({i \in 1..Len(patches) : patches[i].op = "add"})

NoCall == [op |-> "none"]

\* Python None, the empty string and a validation error message
NoError == "None"
EmptyError == ""
Errors == {NoError, EmptyError, "E1"}

\* the truth value of an Optional[str]
truthy(e) == e \notin {NoError, EmptyError}

(***************************************************************************)
(* Construction: PatchTarget.model_post_init, PatchDriver.__init__         *)
(***************************************************************************)
InitObjects(texts, docs) ==
    /\ mode \in {"str", "json"}
    /\ content \in (IF mode = "str" THEN texts ELSE docs)
    /\ original_state = content
    /\ backup_copy = content
    /\ d_map = (IF mode = "str" THEN build_map(content)
                ELSE build_json_annotation_and_map(content).map)
    /\ d_annotated = (IF mode = "str" THEN build_annotation(d_map)
                      ELSE build_json_annotation_and_map(content).ann)
    /\ t_map = d_map
    /\ t_annotated = d_annotated
    /\ iteration = 0

InitNoLoop ==
    /\ pc = "idle"
    /\ state_id = 0
    /\ message_history = <<>>
    /\ messages = <<>>
    /\ last_request = <<>>
    /\ pending = <<>>
    /\ raw_tool_data = <<>>
    /\ outcome = [kind |-> "none"]

\* the caller is between two API calls
Idle == last_call.op = "none"

CallRecord(op, route, patches, rejected, raised) ==
    [op |-> op, route |-> route, patches |-> patches, rejected |-> rejected,
     raised |-> raised, pre_content |-> content, pre_map |-> d_map]

(***************************************************************************)
(* PatchDriver operations on the driver's state                            *)
(*   [content, original_state, map, annotated]                             *)
(* each giving the state it leaves and whether it raised.  In JSON mode    *)
(* _original_state is the live document itself (no copy is taken), so an   *)
(* in-place change of the document is a change of both.                    *)
(***************************************************************************)
DriverState ==
    [content |-> content, original_state |-> original_state,
     map |-> d_map, annotated |-> d_annotated]

DOk(d) == [ok |-> TRUE, d |-> d]
DRaised(d) == [ok |-> FALSE, d |-> d]

\* PatchDriver.apply_patch_bundle
apply_patch_bundle(D, patches) ==
    LET sorted_patches == sort_patches(patches)
    IN  IF ~sorted_patches.ok THEN DRaised(D)
        ELSE IF mode = "str"
        THEN LET r == apply_str_patches(D.map, sorted_patches.patches)
             IN  IF r.ok
                 THEN DOk([D EXCEPT !.map = r.map,
                                    !.content = assemble_text(r.map),
                                    !.annotated = build_annotation(r.map)])
                 ELSE DRaised([D EXCEPT !.map = r.map])
        ELSE LET r == apply_json_patches(D.content, D.map, sorted_patches.patches)
                 built == build_json_annotation_and_map(r.doc)
             IN  IF r.ok
                 THEN DOk([content |-> r.doc, original_state |-> r.doc,
                           map |-> built.map, annotated |-> built.ann])
                 ELSE DRaised([D EXCEPT !.content = r.doc, !.original_state = r.doc])

\* a schema that validates every bundle
patch_schema_accepts_all(D, patches) == TRUE

\* ModdedPatchBundle._check_ids: does patch_schema(patches=patches) validate
patch_schema_accepts(D, patches) ==
    IF mode = "str" THEN check_str_ids(D.map, patches) ELSE check_json_ids(D.map, patches)

\* ModifyStateWithPatch.__call__: bundle = schema(patches=...); apply_patch_bundle(bundle)
modify_state_with_patch(D, patches) ==
    IF ~patch_schema_accepts(D, patches) THEN DRaised(D)
    ELSE apply_patch_bundle(D, patches)

\* PatchDriver.reset_to_original_state
reset_to_original_state(D) ==
    IF mode = "str"
    THEN LET m == build_map(D.original_state)
         IN  [D EXCEPT !.content = D.original_state, !.map = m,
                       !.annotated = build_annotation(m)]
    ELSE LET built == build_json_annotation_and_map(D.original_state)
         IN  [D EXCEPT !.content = D.original_state, !.map = built.map,
                       !.annotated = built.ann]

\* PatchDriver._apply_patch on a JSON document
apply_patch_json(D, patch) ==
    LET r == apply_json_patch(D.content, D.map, patch)
    IN  IF r.ok THEN DOk([D EXCEPT !.content = r.doc, !.original_state = r.doc])
        ELSE DRaised([D EXCEPT !.content = r.doc, !.original_state = r.doc])

SetDriver(d) ==
    /\ content' = d.content
    /\ original_state' = d.original_state
    /\ d_map' = d.map
    /\ d_annotated' = d.annotated

\* a batch the caller may pass in the current state
Offered(patches) ==
    IF mode = "str"
    THEN patches \in StrBatches /\ Cardinality(DOMAIN d_map) + InsertCount(patches) <= MaxLines
    ELSE patches \in JsonBatches /\ json_size(content) + AddCount(patches) <= MaxNodes

(***************************************************************************)
(* A caller driving the PatchDriver                                        *)
(***************************************************************************)
\* bundle = driver.patch_schema(patches=patches); driver.apply_patch_bundle(bundle)
DriverApplyChecked ==
    /\ api = "driver" /\ Idle
    /\ \E patches \in (IF mode = "str" THEN StrBatches ELSE JsonBatches) :
          /\ Offered(patches)
          /\ LET r == modify_state_with_patch(DriverState, patches)
             IN  /\ SetDriver(r.d)
                 /\ last_call' = CallRecord("apply", "checked", patches,
                                            ~patch_schema_accepts(DriverState, patches), ~r.ok)
    /\ UNCHANGED <<mode, backup_copy, d_error, targetVars, validator, api, loopVars>>

\* bundle = driver.patch_schema.model_construct(patches=patches): no validation
DriverApplyUnchecked ==
    /\ api = "driver" /\ Idle
    /\ \E patches \in (IF mode = "str" THEN StrBatches ELSE JsonBatches) :
          /\ Offered(patches)
          /\ LET r == apply_patch_bundle(DriverState, patches)
             IN  /\ SetDriver(r.d)
                 /\ last_call' = CallRecord("apply", "unchecked", patches, FALSE, ~r.ok)
    /\ UNCHANGED <<mode, backup_copy, d_error, targetVars, validator, api, loopVars>>

\* driver._apply_patch(patch) on a JSON document, as the tests call it: one
\* patch on the live document, the map is not rebuilt
DriverApplyPatch ==
    /\ api = "driver" /\ mode = "json" /\ Idle
    /\ \E patch \in JsonPatches :
          /\ json_size(content) + AddCount(<<patch>>) <= MaxNodes
          /\ LET r == apply_patch_json(DriverState, patch)
             IN  /\ SetDriver(r.d)
                 /\ last_call' = CallRecord("apply_patch", "direct", <<patch>>, FALSE, ~r.ok)
    /\ UNCHANGED <<mode, backup_copy, d_error, targetVars, validator, api, loopVars>>

\* driver.reset_to_original_state()
DriverReset ==
    /\ api = "driver" /\ Idle
    /\ SetDriver(reset_to_original_state(DriverState))
    /\ last_call' = CallRecord("reset", "direct", <<>>, FALSE, FALSE)
    /\ UNCHANGED <<mode, backup_copy, d_error, targetVars, validator, api, loopVars>>

\* the call returns (or its exception reaches the caller)
Return ==
    /\ ~Idle
    /\ last_call' = NoCall
    /\ UNCHANGED <<objVars, api, loopVars>>

(***************************************************************************)
(* PatchTarget.validate_content                                            *)
(***************************************************************************)
\* the validation_schema of the JSON targets: a: str, b: List[str]
IsVal(d) == d.t = "val"
HasField(doc, key) == \E i \in 1..Len(doc.kv) : doc.kv[i].k = key
Field(doc, key) == doc.kv[CHOOSE i \in 1..Len(doc.kv) : doc.kv[i].k = key].v
validation_schema_accepts(doc) ==
    /\ doc.t = "obj"
    /\ HasField(doc, <<"a">>) /\ IsVal(Field(doc, <<"a">>))
    /\ HasField(doc, <<"b">>) /\ Field(doc, <<"b">>).t = "arr"
    /\ \A i \in 1..Len(Field(doc, <<"b">>).items) : IsVal(Field(doc, <<"b">>).items[i])

SchemaError == "Eschema"
Validators == {"none", "fails", "free"}

\* what validation_condition(content) may return: no condition, a condition
\* that rejects every content, a condition free to return anything
condition_results(c) ==
    CASE validator = "none" -> {NoError}
      [] validator = "fails" -> {"E1"}
      [] validator = "free" -> Errors

\* one run of validate_content(): what it returns, whether it called
\* validation_condition and what the condition returned
ValidationRun(returned, invoked, result) ==
    [returned |-> returned, invoked |-> invoked, result |-> result]
NoRun == ValidationRun(NoError, FALSE, NoError)

\* a validate_content that asks the condition before the schema
validation_run_condition_first(c) ==
    IF validator # "none"
    THEN {ValidationRun(e, TRUE, e) : e \in condition_results(c)}
    ELSE IF mode = "json" /\ ~validation_schema_accepts(c)
    THEN {ValidationRun(SchemaError, FALSE, NoError)}
    ELSE {NoRun}

\* the runs validate_content() may make on content c: the schema's
\* ValidationError is returned at once, else the condition's result, else None
validation_run(c) ==
    IF mode = "json" /\ ~validation_schema_accepts(c)
    THEN {ValidationRun(SchemaError, FALSE, NoError)}
    ELSE IF validator # "none"
    THEN {ValidationRun(e, TRUE, e) : e \in condition_results(c)}
    ELSE {NoRun}

\* the values validate_content() may return for content c
validate_content(c) == {run.returned : run \in validation_run(c)}

(***************************************************************************)
(* A caller driving the PatchTarget (string patches)                       *)
(***************************************************************************)
\* StrPatchBundle of build_bundle_schema(map): _check_ids, then the sort
bundle_schema(m, patches) ==
    IF ~check_str_ids(m, patches) THEN [ok |-> FALSE, patches |-> patches]
    ELSE [ok |-> TRUE, patches |-> stable_sort(patches)]

TargetCallRecord(op, route, patches, rejected, raised, run) ==
    [op |-> op, route |-> route, patches |-> patches, rejected |-> rejected,
     raised |-> raised, pre_content |-> content, pre_map |-> t_map,
     returned |-> run.returned, invoked |-> run.invoked, result |-> run.result]

\* an apply_patches that counts the calls that raise as well
ApplyPatches_count_all(route, patches, rejected) ==
    LET r == apply_str_patches(t_map, patches)
    IN  /\ last_call' = TargetCallRecord("apply", route, patches, rejected, ~r.ok, NoRun)
        /\ iteration' = iteration + 1
        /\ IF r.ok
           THEN LET new_content == assemble_text(r.map)
                IN  /\ content' = new_content
                    /\ t_map' = build_map(new_content)
                    /\ t_annotated' = build_annotation(build_map(new_content))
           ELSE /\ t_map' = r.map
                /\ UNCHANGED <<content, t_annotated>>

\* PatchTarget.apply_patches(patches)
ApplyPatches(route, patches, rejected) ==
    LET r == apply_str_patches(t_map, patches)
    IN  /\ last_call' = TargetCallRecord("apply", route, patches, rejected, ~r.ok, NoRun)
        /\ IF r.ok
           THEN LET new_content == assemble_text(r.map)
                IN  /\ content' = new_content
                    /\ iteration' = iteration + 1
                    /\ t_map' = build_map(new_content)
                    /\ t_annotated' = build_annotation(build_map(new_content))
           ELSE /\ t_map' = r.map
                /\ UNCHANGED <<content, iteration, t_annotated>>

\* the batches offered to a PatchTarget
TargetBatches == {<<>>} \cup {<<p>> : p \in StrPatches} \cup TriplePatches

TargetOffered(patches) ==
    /\ patches \in TargetBatches
    /\ Cardinality(DOMAIN t_map) + InsertCount(patches) <= MaxLines
    /\ iteration < MaxIteration

\* bundle = StrPatch.build_bundle_schema(target._lookup_map)(patches=patches);
\* target.apply_patches(bundle.patches)
TargetApplyChecked ==
    /\ api = "target" /\ Idle
    /\ \E patches \in TargetBatches :
          /\ TargetOffered(patches)
          /\ LET bundle == bundle_schema(t_map, patches)
             IN  IF bundle.ok
                 THEN ApplyPatches("checked", bundle.patches, FALSE)
                 ELSE /\ last_call' = TargetCallRecord("apply", "checked", patches,
                                                       TRUE, TRUE, NoRun)
                      /\ UNCHANGED <<content, iteration, t_map, t_annotated>>
    /\ UNCHANGED <<mode, original_state, backup_copy, d_map, d_annotated, d_error,
                   t_error, validator, api, loopVars>>

\* target.apply_patches(patches) with a list the caller built
TargetApplyUnchecked ==
    /\ api = "target" /\ Idle
    /\ \E patches \in TargetBatches :
          /\ TargetOffered(patches)
          /\ ApplyPatches("unchecked", patches, FALSE)
    /\ UNCHANGED <<mode, original_state, backup_copy, d_map, d_annotated, d_error,
                   t_error, validator, api, loopVars>>

\* a reset that leaves current_error as it was
TargetReset_stale_error ==
    /\ api = "target" /\ Idle
    /\ content' = backup_copy
    /\ iteration' = 0
    /\ t_map' = build_map(backup_copy)
    /\ t_annotated' = build_annotation(build_map(backup_copy))
    /\ \E run \in validation_run(backup_copy) :
          last_call' = TargetCallRecord("reset", "direct", <<>>, FALSE, FALSE, run)
    /\ UNCHANGED <<mode, original_state, backup_copy, d_map, d_annotated, d_error,
                   t_error, validator, api, loopVars>>

\* target.reset_to_original_state()
TargetReset ==
    /\ api = "target" /\ Idle
    /\ content' = backup_copy
    /\ iteration' = 0
    /\ t_map' = build_map(backup_copy)
    /\ t_annotated' = build_annotation(build_map(backup_copy))
    /\ \E run \in validation_run(backup_copy) :
          /\ t_error' = run.returned
          /\ last_call' = TargetCallRecord("reset", "direct", <<>>, FALSE, FALSE, run)
    /\ UNCHANGED <<mode, original_state, backup_copy, d_map, d_annotated, d_error,
                   validator, api, loopVars>>

\* target.validate_content(): returns the error, stores nothing
TargetValidate ==
    /\ api = "target" /\ Idle
    /\ \E run \in validation_run(content) :
          last_call' = TargetCallRecord("validate", "direct", <<>>, FALSE, FALSE, run)
    /\ UNCHANGED <<objVars, api, loopVars>>

Init ==
    /\ InitObjects(Texts, Docs)
    /\ InitNoLoop
    /\ d_error = NoError
    /\ t_error = NoError
    /\ validator = "none"
    /\ api = "driver"
    /\ last_call = NoCall

Next ==
    \/ DriverApplyChecked
    \/ DriverApplyUnchecked
    \/ DriverApplyPatch
    \/ DriverReset
    \/ Return

Spec == Init /\ [][Next]_vars

InitTarget ==
    /\ InitObjects(Texts, Docs)
    /\ mode = "str"
    /\ InitNoLoop
    /\ d_error = NoError
    /\ t_error \in {NoError, "E1"}
    /\ validator \in Validators
    /\ api = "target"
    /\ last_call = NoCall

NextTarget ==
    \/ TargetApplyChecked
    \/ TargetApplyUnchecked
    \/ TargetReset
    \/ TargetValidate
    \/ Return

SpecTarget == InitTarget /\ [][NextTarget]_vars

(***************************************************************************)
(* PatchDriver.run_patching_loop                                           *)
(***************************************************************************)
MaxTurns == 3   \* the model stops issuing LLM calls after this many turns

BuiltInTools == {"ResetToOriginalState", "RequestModification", "ModifyStateWithPatch"}
\* _tool_map: the built-in tools and one tool passed by the caller
BoundTools == BuiltInTools \cup {"UserTool"}

\* a ToolCallRequest: the tool's name and its arguments -- whether json.loads
\* can decode them, and what they ask the tool to do
ToolCall(name, decodable, action, patches) ==
    [name |-> name, decodable |-> decodable, action |-> action, patches |-> patches]

LoopBatches ==
    IF mode = "str"
    THEN {<<StrPatch(<<<<1, 1>>>>, DeleteOp)>>, <<StrPatch(<<<<1, 2>>>>, DeleteOp)>>,
          <<StrPatch(<<<<3, 1>>>>, DeleteOp)>>}
    ELSE {<<>>, <<JsonPatch("replace", 1, NoItem, JVal("y"))>>}

\* the tool calls an LLM response may carry
ToolCalls ==
    {ToolCall("ModifyStateWithPatch", TRUE, "apply", b) : b \in LoopBatches}
    \cup {ToolCall("ResetToOriginalState", TRUE, "reset", <<>>),
          ToolCall("RequestModification", TRUE, "request", <<>>),
          ToolCall("Unbound", TRUE, "return", <<>>),
          ToolCall("UserTool", FALSE, "return", <<>>),
          ToolCall("UserTool", TRUE, "return", <<>>),
          ToolCall("UserTool", TRUE, "raise", <<>>),
          ToolCall("UserTool", TRUE, "reset", <<>>)}
    \cup {ToolCall("UserTool", TRUE, "apply", b) : b \in LoopBatches}

ToolCallLists == {<<>>} \cup {<<c>> : c \in ToolCalls} \cup {<<c, d>> : c, d \in ToolCalls}

ToolOk(d, output) == [raised |-> FALSE, cause |-> "", d |-> d, output |-> output]
ToolRaised(d, cause) == [raised |-> TRUE, cause |-> cause, d |-> d, output |-> ""]

\* a tool of the caller, called with patch_driver=driver: it returns, raises,
\* resets the driver, or validates and applies a bundle as ModifyStateWithPatch does
user_tool(call, D) ==
    CASE call.action = "return" -> ToolOk(D, "done")
      [] call.action = "raise" -> ToolRaised(D, "ToolError")
      [] call.action = "reset" -> ToolOk(reset_to_original_state(D), "reset")
      [] call.action = "apply" ->
             LET r == modify_state_with_patch(D, call.patches)
             IN  IF r.ok THEN ToolOk(r.d, "modified")
                 ELSE ToolRaised(r.d, IF patch_schema_accepts(D, call.patches)
                                      THEN "ApplyError" ELSE "ValidationError")

\* a dispatch that swallows what the tool raises and carries on
call_tool_swallowing(call, D) ==
    [(IF ~call.decodable THEN ToolRaised(D, "JSONDecodeError")
      ELSE IF call.name \in BuiltInTools THEN ToolRaised(D, "TypeError")
      ELSE user_tool(call, D)) EXCEPT !.raised = FALSE]

\* tool_args = json.loads(arguments); await tool_func(**tool_args)(patch_driver=self)
\* the built-in tools define __call__(self): the keyword is a TypeError
call_tool(call, D) ==
    IF ~call.decodable THEN ToolRaised(D, "JSONDecodeError")
    ELSE IF call.name \in BuiltInTools THEN ToolRaised(D, "TypeError")
    ELSE user_tool(call, D)

\* a loop that goes on whatever the error is
loop_continues_always(e) == TRUE

\* while self._current_error
loop_continues(e) == truthy(e)

UserMessage == [role |-> "user", kind |-> "history", turn |-> 0, error |-> NoError,
                annotated |-> <<>>, tool_calls |-> <<>>]
LoopPrompt == [role |-> "system", kind |-> "prompt", turn |-> 0, error |-> NoError,
               annotated |-> <<>>, tool_calls |-> <<>>]
\* an error message that always carries a snapshot
ErrorMessage_snapshot(sid, e, annotated) ==
    [role |-> "system", kind |-> "error", turn |-> sid, error |-> e,
     annotated |-> <<<<>>>>, tool_calls |-> <<>>]

\* ERROR_TEMPLATE with the annotated state (<<a>>) or the placeholder (<<>>)
ErrorMessage(sid, e, annotated) ==
    [role |-> "system", kind |-> "error", turn |-> sid, error |-> e,
     annotated |-> annotated, tool_calls |-> <<>>]
\* the assistant message of the response to the call made with state_id sid
AssistantMessage(sid, tool_calls) ==
    [role |-> "assistant", kind |-> "response", turn |-> sid, error |-> NoError,
     annotated |-> <<>>, tool_calls |-> tool_calls]

NoOutcome == [kind |-> "none"]
Returned == [kind |-> "returned"]
RaisedOutcome(exc, tool, cause) == [kind |-> "raised", exc |-> exc, tool |-> tool, cause |-> cause]

\* a loop that appends its prompt to the caller's list and goes on with it
LoopStart_in_place ==
    /\ api = "loop" /\ pc = "idle"
    /\ message_history' = message_history \o <<LoopPrompt>>
    /\ messages' = message_history \o <<LoopPrompt>>
    /\ state_id' = 0
    /\ pc' = "head"
    /\ UNCHANGED <<objVars, api, last_call, last_request, pending, raw_tool_data, outcome>>

\* run_patching_loop(message_history) is called
LoopStart ==
    /\ api = "loop" /\ pc = "idle"
    /\ messages' = message_history \o <<LoopPrompt>>
    /\ state_id' = 0
    /\ pc' = "head"
    /\ UNCHANGED <<objVars, api, last_call, message_history, last_request, pending,
                   raw_tool_data, outcome>>

\* the while condition is false: the coroutine returns
LoopReturn ==
    /\ pc = "head" /\ ~loop_continues(d_error)
    /\ pc' = "done"
    /\ outcome' = Returned
    /\ UNCHANGED <<objVars, api, last_call, state_id, message_history, messages,
                   last_request, pending, raw_tool_data>>

\* one create_message call and the bookkeeping up to the tool loop
LLMTurn ==
    /\ pc = "head" /\ loop_continues(d_error)
    /\ state_id < MaxTurns
    /\ \E tool_calls \in ToolCallLists :
          /\ last_request' = messages \o <<ErrorMessage(state_id, d_error, <<d_annotated>>)>>
          /\ messages' = messages \o <<ErrorMessage(state_id, d_error, <<>>),
                                       AssistantMessage(state_id, tool_calls)>>
          /\ pending' = tool_calls
    /\ state_id' = state_id + 1
    /\ raw_tool_data' = <<>>
    /\ pc' = "dispatch"
    /\ UNCHANGED <<objVars, api, last_call, message_history, outcome>>

\* one pass of the for loop over tool_calls
Dispatch ==
    /\ pc = "dispatch" /\ pending # <<>>
    /\ LET tool_call == Head(pending)
       IN  IF tool_call.name \notin BoundTools
           THEN /\ pc' = "raised"
                /\ outcome' = RaisedOutcome("KeyError", "", tool_call.name)
                /\ UNCHANGED <<driverVars, pending, raw_tool_data>>
           ELSE LET r == call_tool(tool_call, DriverState)
                IN  /\ SetDriver(r.d)
                    /\ IF r.raised
                       THEN /\ pc' = "raised"
                            /\ outcome' = RaisedOutcome("ValueError", tool_call.name, r.cause)
                            /\ UNCHANGED <<pending, raw_tool_data>>
                       ELSE /\ raw_tool_data' = Append(raw_tool_data, <<tool_call, r.output>>)
                            /\ pending' = Tail(pending)
                            /\ UNCHANGED <<pc, outcome>>
    /\ UNCHANGED <<mode, backup_copy, d_error, targetVars, validator, api, last_call,
                   state_id, message_history, messages, last_request>>

\* client.format_tool_call_results(raw_tool_data, message); messages.extend(...)
\* it reads tool_call[1].output of a dict: an AttributeError when a tool ran
FormatResults ==
    /\ pc = "dispatch" /\ pending = <<>>
    /\ IF raw_tool_data # <<>>
       THEN /\ pc' = "raised"
            /\ outcome' = RaisedOutcome("AttributeError", "", "output")
            /\ UNCHANGED messages
       ELSE /\ messages' = Append(messages, AssistantMessage(state_id - 1, <<>>))
            /\ pc' = "validating"
            /\ UNCHANGED outcome
    /\ UNCHANGED <<objVars, api, last_call, state_id, message_history, last_request,
                   pending, raw_tool_data>>

\* self._current_error = await self._target_object.validate_content()
Validate ==
    /\ pc = "validating"
    /\ \E run \in validation_run(content) :
          /\ d_error' = run.returned
          /\ last_call' = TargetCallRecord("validate", "direct", <<>>, FALSE, FALSE, run)
    /\ pc' = "head"
    /\ UNCHANGED <<mode, content, original_state, backup_copy, d_map, d_annotated,
                   targetVars, validator, api, state_id, message_history,
                   messages, last_request, pending, raw_tool_data, outcome>>

\* {"a": "x"}: a document the schema rejects
Doc3 == JObj(<<KV(<<"a">>, JVal("x"))>>)

InitLoop ==
    /\ InitObjects(Texts, Docs \cup {Doc3})
    /\ d_error \in Errors
    /\ t_error \in {NoError, "E1"}
    /\ validator \in Validators
    /\ api = "loop"
    /\ last_call = NoCall
    /\ pc = "idle"
    /\ state_id = 0
    /\ message_history = <<UserMessage>>
    /\ messages = <<>>
    /\ last_request = <<>>
    /\ pending = <<>>
    /\ raw_tool_data = <<>>
    /\ outcome = NoOutcome

NextLoop ==
    \/ LoopStart
    \/ LoopReturn
    \/ LLMTurn
    \/ Dispatch
    \/ FormatResults
    \/ Validate

SpecLoop == InitLoop /\ [][NextLoop]_vars

(***************************************************************************)
(* Properties of run_patching_loop (SpecLoop)                              *)
(***************************************************************************)
\* a cycle limit below the horizon of the model; the code declares none
max_cycles == MaxTurns - 1

\* C1: when the validator rejects every content, run_patching_loop makes no
\* more than max_cycles iterations (it then ends in a 'failed' state).
C1_TerminatesAtMaxCycles ==
    validator = "fails" => state_id <= max_cycles

\* C10: once max_cycles iterations are done and the error is still non-null,
\* the next step of the loop reports a terminal failure, an outcome that is
\* neither a normal return nor a tool execution error.
C10_ExhaustionReported ==
    [][(pc = "head" /\ state_id = max_cycles /\ d_error # NoError)
           => outcome'.kind = "failed"]_vars

\* C7: an LLM call is issued only while the current error is non-null; with a
\* null current error at the loop head (on entry, or after a turn whose
\* validate_content returned null) the loop returns without an LLM call, a tool
\* execution or a mutation of the target, and nothing happens after it returned.
C7_LoopExitOnSuccess ==
    [][/\ (state_id' # state_id \/ last_request' # last_request) => d_error # NoError
       /\ (pc = "head" /\ d_error = NoError)
             => /\ pc' = "done" /\ outcome' = Returned
                /\ UNCHANGED <<driverVars, targetVars, backup_copy, state_id,
                               last_request, pending, raw_tool_data>>
       /\ pc # "done"]_vars

\* a turn was made, its validate_content returned null, the loop returned
C7_Witness ==
    pc = "done" /\ state_id >= 1 /\ d_error = NoError /\ outcome = Returned

\* the execution of the bound tool at the head of the pending calls raises:
\* the tool's own code raises, or the bundle it applies is rejected or fails
BoundToolRaises(call) ==
    /\ call.name = "UserTool" /\ call.decodable
    /\ \/ call.action = "raise"
       \/ call.action = "apply" /\ ~modify_state_with_patch(DriverState, call.patches).ok

\* C9: when the execution of a bound tool raises during dispatch, the loop
\* aborts at once with an error that carries the tool's name and the cause:
\* the remaining tool calls are not executed, validate_content is not called,
\* no further LLM call is made, and nothing happens after the abort.
C9_ToolErrorsFatal ==
    [][/\ (pc = "dispatch" /\ pending # <<>> /\ BoundToolRaises(Head(pending)))
             => /\ pc' = "raised"
                /\ outcome'.kind = "raised"
                /\ outcome'.tool = Head(pending).name
                /\ outcome'.cause \in {"ToolError", "ValidationError", "ApplyError"}
                /\ outcome'.cause = "ToolError" <=> Head(pending).action = "raise"
                /\ UNCHANGED <<pending, raw_tool_data, d_error, state_id, last_request>>
       /\ pc # "raised"]_vars

\* the first of two tool calls raised in the tool's own code: the loop is
\* aborted with the second call still pending
C9_Witness ==
    /\ pc = "raised" /\ outcome.exc = "ValueError"
    /\ outcome.tool = "UserTool" /\ outcome.cause = "ToolError"
    /\ Len(pending) = 2 /\ pending[1].action = "raise"

\* the tids of a batch
AllTids(patches) ==
    UNION {{patches[i].tids[j] : j \in 1..Len(patches[i].tids)} : i \in 1..Len(patches)}

\* the map m without the sentences tids names, emptied lines dropped
MapWithout(m, tids) ==
    LET kept(l) == {s \in DOMAIN m[l] : <<l, s>> \notin tids}
    IN  [l \in {x \in DOMAIN m : kept(x) # {}} |-> [s \in kept(l) |-> m[l][s]]]

\* the annotated view of the latest LLM call as a map
ViewMap ==
    LET view == last_request[Len(last_request)].annotated[1]
        at(l, s) == CHOOSE i \in 1..Len(view) : view[i][1] = l /\ view[i][2] = s
    IN  [l \in {view[i][1] : i \in 1..Len(view)} |->
            [s \in {view[i][2] : i \in {j \in 1..Len(view) : view[j][1] = l}} |->
                view[at(l, s)][3]]]

\* C3: when the two tool calls of a turn both applied patches (string mode,
\* Delete patches whose tids all name sentences of the turn's annotated view),
\* the content is the view without the sentences those tids named in the view.
C3_IdentifierStability ==
    (/\ mode = "str" /\ pc = "dispatch" /\ pending = <<>>
     /\ Len(raw_tool_data) = 2
     /\ \A i \in 1..2 : /\ raw_tool_data[i][1].action = "apply"
                        /\ tids_in_map(ViewMap, raw_tool_data[i][1].patches[1].tids))
        => content = assemble_text(MapWithout(ViewMap,
                         AllTids(raw_tool_data[1][1].patches \o raw_tool_data[2][1].patches)))

(***************************************************************************)
(* Properties of the PatchDriver operations (Spec)                         *)
(***************************************************************************)
\* the ids of a patch name units of the map m
PatchIdsValid(m, patch) ==
    IF mode = "str" THEN patch.tids # <<>> /\ tids_in_map(m, patch.tids)
    ELSE patch.a_id \in DOMAIN m

\* the map the call found is the map of the content it found
MapCurrent(call) ==
    call.pre_map = (IF mode = "str" THEN build_map(call.pre_content)
                    ELSE build_json_annotation_and_map(call.pre_content).map)

\* C2: applying a batch that holds a patch whose ids are valid and a patch with
\* an out-of-range id leaves the content as it was before the call.
C2_Atomicity ==
    (/\ last_call.op = "apply" /\ MapCurrent(last_call)
     /\ \E i \in 1..Len(last_call.patches) : PatchIdsValid(last_call.pre_map, last_call.patches[i])
     /\ \E i \in 1..Len(last_call.patches) : ~PatchIdsValid(last_call.pre_map, last_call.patches[i]))
        => content = last_call.pre_content

OnlyTypes(patches, types) == \A i \in 1..Len(patches) : patches[i].operation.type \in types
OfType(patches, type) == {i \in 1..Len(patches) : patches[i].operation.type = type}
TidSet(patch) == {patch.tids[j] : j \in 1..Len(patch.tids)}

\* a string batch applied to a current map, every tid valid in it
ValidStrBatch(call) ==
    /\ mode = "str" /\ call.op = "apply" /\ MapCurrent(call)
    /\ check_str_ids(call.pre_map, call.patches)

\* no sentence is named by two patches of the batch
DisjointTids(patches) ==
    \A i, j \in 1..Len(patches) : i # j => TidSet(patches[i]) \cap TidSet(patches[j]) = {}

\* C4: a batch of several Delete patches with valid tids is applied without an
\* error and removes exactly the sentences its tids named in the pre-batch map.
C4_DeleteCoordinateSafety ==
    (/\ ValidStrBatch(last_call)
     /\ Len(last_call.patches) >= 2 /\ OnlyTypes(last_call.patches, {"delete"})
     /\ DisjointTids(last_call.patches))
        => /\ ~last_call.raised
           /\ content = assemble_text(MapWithout(last_call.pre_map, AllTids(last_call.patches)))

\* the text expected of a Delete and an InsertAfter: the lines up to the
\* anchor line without the deleted sentences, the new line, the lines below
ExpectedInsert(m, deleted, anchor_line, text) ==
    LET rest == MapWithout(m, deleted)
        above == [l \in {x \in DOMAIN rest : x <= anchor_line} |-> rest[l]]
        below == [l \in {x \in DOMAIN rest : x > anchor_line} |-> rest[l]]
    IN  join_lines(assemble_lines(above, SortedKeys(DOMAIN above)) \o <<text>>
                   \o assemble_lines(below, SortedKeys(DOMAIN below)))

\* C5: in a batch of one Delete and one InsertAfter with valid tids, the new
\* line is placed right after the line its anchor tid named in the pre-batch
\* map, whatever lines the Delete empties.
C5_DeleteInsertCoordinateSafety ==
    (/\ ValidStrBatch(last_call)
     /\ OnlyTypes(last_call.patches, {"delete", "insert_after"})
     /\ Cardinality(OfType(last_call.patches, "delete")) = 1
     /\ Cardinality(OfType(last_call.patches, "insert_after")) = 1)
        => LET ins == last_call.patches[CHOOSE i \in 1..Len(last_call.patches) :
                                            last_call.patches[i].operation.type = "insert_after"]
               dels == UNION {TidSet(last_call.patches[i]) :
                                 i \in OfType(last_call.patches, "delete")}
           IN  /\ ~last_call.raised
               /\ content = ExpectedInsert(last_call.pre_map, dels,
                                           ins.tids[Len(ins.tids)][1], ins.operation.text)

\* the patch of the given type in a batch of one Replace, one Delete, one InsertAfter
TheOne(patches, type) == patches[CHOOSE i \in 1..Len(patches) : patches[i].operation.type = type]

Replace11 == StrPatch(<<<<1, 1>>>>, ReplaceOp(<<"Hello">>, <<"Hi">>))
Delete21 == StrPatch(<<<<2, 1>>>>, DeleteOp)
Insert11 == StrPatch(<<<<1, 1>>>>, InsertAfterOp(NewLineText))

\* C6: a batch of one Replace, one Delete and one InsertAfter with valid tids
\* gives, in each of its six orders, the text of the Replace, then the Delete,
\* then the InsertAfter; on 'Hello world.' / 'This is a test.' with
\* Replace(Hello->Hi) on 1_1, Delete on 2_1 and InsertAfter('New line.') on 1_1
\* that text is 'Hi world.' / 'New line.'.
C6_BatchOrderInvariant ==
    (/\ mode = "str" /\ last_call.op = "apply" /\ last_call.patches \in TriplePatches
     /\ MapCurrent(last_call) /\ check_str_ids(last_call.pre_map, last_call.patches))
        => LET canonical == <<TheOne(last_call.patches, "replace"),
                              TheOne(last_call.patches, "delete"),
                              TheOne(last_call.patches, "insert_after")>>
               expected == apply_str_patches(last_call.pre_map, canonical)
           IN  /\ ~last_call.raised /\ expected.ok
               /\ content = assemble_text(expected.map)
               /\ (last_call.pre_content = Text1
                   /\ last_call.patches \in Perms3(Replace11, Delete21, Insert11))
                      => content = <<"Hi", " world", DOT, NL, "New line", DOT>>

\* the example batch, given as InsertAfter, Delete, Replace, gave the example's text
C6_Witness ==
    /\ mode = "str" /\ last_call.op = "apply" /\ last_call.pre_content = Text1
    /\ last_call.patches = <<Insert11, Delete21, Replace11>>
    /\ content = <<"Hi", " world", DOT, NL, "New line", DOT>>

\* C8: after reset_to_original_state the live content is the content the
\* target was constructed with, and the driver's original is still that content.
C8_ResetRestoresOriginal ==
    last_call.op = "reset" => (content = backup_copy /\ original_state = backup_copy)

(***************************************************************************)
(* Message history of run_patching_loop (SpecLoop)                         *)
(***************************************************************************)
\* the positions of the debugging messages in a message list
ErrorPositions(msgs) == {i \in 1..Len(msgs) : msgs[i].kind = "error"}

\* C11: in the messages of every LLM request only the last debugging message
\* carries the annotated state (the state at the time of the request); every
\* earlier one carries the placeholder; the list kept by the loop holds
\* placeholders only, and the message kept for a turn retains the turn's state
\* id and error text.
C11_HistoryHygiene ==
    [][/\ \A i \in ErrorPositions(messages') : messages'[i].annotated = <<>>
       /\ last_request' # last_request
             => /\ Len(last_request') = Len(messages) + 1
                /\ \A i \in 1..Len(messages) : last_request'[i] = messages[i]
                /\ last_request'[Len(messages) + 1].kind = "error"
                /\ last_request'[Len(messages) + 1].annotated = <<d_annotated>>
                /\ Cardinality({i \in ErrorPositions(last_request') :
                                   last_request'[i].annotated # <<>>}) = 1
                /\ messages'[Len(messages) + 1].kind = "error"
                /\ messages'[Len(messages) + 1].turn = state_id
                /\ messages'[Len(messages) + 1].error = d_error
                /\ \A i \in 1..Len(messages) : messages'[i] = messages[i]]_vars

\* a third request: two earlier debugging messages, both with the placeholder
C11_Witness ==
    /\ Cardinality(ErrorPositions(last_request)) = 3
    /\ last_request[Len(last_request)].annotated = <<d_annotated>>
    /\ \A i \in ErrorPositions(last_request) :
          i < Len(last_request) => last_request[i].annotated = <<>>

(***************************************************************************)
(* The driver's map against the content (Spec)                             *)
(***************************************************************************)
\* the map a from-scratch build of content c yields
FreshMap(c) ==
    IF mode = "str" THEN build_map(c) ELSE build_json_annotation_and_map(c).map

\* a batch validated against a current map was applied without an error
SuccessfulBatch(call) ==
    /\ call.op = "apply" /\ call.route = "checked" /\ MapCurrent(call)
    /\ ~call.rejected /\ ~call.raised

\* the line keys are 1..n and the sentence keys of every line are 1..k
DenseKeys(m) ==
    /\ DOMAIN m = 1..Cardinality(DOMAIN m)
    /\ \A l \in DOMAIN m : DOMAIN m[l] = 1..Cardinality(DOMAIN m[l])

\* C12: after every successful patch batch and after every reset the
\* identifier map (its keys being dense) is the map a from-scratch build of
\* the content yields.
C12_MapContentConsistency ==
    ((SuccessfulBatch(last_call) \/ last_call.op = "reset") /\ (mode = "str" => DenseKeys(d_map)))
        => d_map = FreshMap(content)

\* C13: after a successful string batch, validated against the map current at
\* its start, the line keys are exactly 1..n and the sentence keys of every
\* line exactly 1..k.
C13_DenseKeys ==
    (mode = "str" /\ SuccessfulBatch(last_call)) => DenseKeys(d_map)

\* C14: a bundle built through the driver's patch schema is rejected exactly
\* when one of its patches names a (line, sentence) pair or an attribute id
\* that the map holds not at that time, and a rejected bundle changes nothing.
C14_BundleValidation ==
    (last_call.op = "apply" /\ last_call.route = "checked")
        => /\ last_call.rejected
                <=> \E i \in 1..Len(last_call.patches) :
                        ~PatchIdsValid(last_call.pre_map, last_call.patches[i])
           /\ last_call.rejected
                => /\ last_call.raised
                   /\ content = last_call.pre_content
                   /\ d_map = last_call.pre_map

\* a bundle whose tids the map of the original text holds is rejected against
\* the map that earlier batches left
C14_Witness ==
    /\ mode = "str" /\ last_call.op = "apply" /\ last_call.route = "checked"
    /\ last_call.rejected /\ last_call.patches # <<>>
    /\ last_call.pre_content # backup_copy
    /\ check_str_ids(build_map(backup_copy), last_call.patches)

\* the value a pointer names in a document, JNull when it names none
RECURSIVE ValueAt(_, _)
ValueAt(doc, parts) ==
    IF parts = <<>> THEN doc
    ELSE IF doc.t = "obj"
    THEN IF KeyPos(doc.kv, parts[1]) = 0 THEN JNull
         ELSE ValueAt(doc.kv[KeyPos(doc.kv, parts[1])].v, Tail(parts))
    ELSE IF doc.t = "arr"
    THEN IF array_index(parts[1]) < 0 \/ array_index(parts[1]) >= Len(doc.items) THEN JNull
         ELSE ValueAt(doc.items[array_index(parts[1]) + 1], Tail(parts))
    ELSE JNull

\* the item id of the patch addresses an element of the array at its attribute
\* (for add: or the position just past the end)
ItemAddressed(doc, m, patch) ==
    LET v == ValueAt(doc, pointer_parts(m[patch.a_id]))
    IN  /\ v.t = "arr"
        /\ patch.i_id[1] \in 1..(Len(v.items) + (IF patch.op = "add" THEN 1 ELSE 0))

\* C15: a JSON bundle with a patch whose item id addresses no element of the
\* array at its attribute is rejected when the bundle is validated.
C15_ItemIdRejected ==
    (/\ mode = "json" /\ last_call.op = "apply" /\ last_call.route = "checked"
     /\ MapCurrent(last_call)
     /\ \E i \in 1..Len(last_call.patches) :
           /\ last_call.patches[i].i_id # NoItem
           /\ last_call.patches[i].a_id \in DOMAIN last_call.pre_map
           /\ ~ItemAddressed(last_call.pre_content, last_call.pre_map, last_call.patches[i]))
        => last_call.rejected

\* a call of validate_content has just returned (directly, or at the end of
\* the target's reset)
Validated(call) == call.op \in {"validate", "reset"} /\ call.route = "direct"
ValidatedContent(call) == IF call.op = "reset" THEN backup_copy ELSE call.pre_content
schema_configured == mode = "json"
condition_configured == validator # "none"
schema_error(c) ==
    IF schema_configured /\ ~validation_schema_accepts(c) THEN SchemaError ELSE NoError

\* C16: validate_content returns the schema error if the schema check fails,
\* else the result of the predicate (which it then has called), and null if
\* both pass; with neither a schema nor a predicate it returns null.
C16_ValidationOrder ==
    Validated(last_call)
        => LET c == ValidatedContent(last_call)
           IN  /\ schema_error(c) # NoError => last_call.returned = schema_error(c)
               /\ (schema_error(c) = NoError /\ condition_configured)
                     => /\ last_call.invoked
                        /\ last_call.result \in condition_results(c)
                        /\ last_call.returned = last_call.result
               /\ (schema_error(c) = NoError /\ ~condition_configured)
                     => last_call.returned = NoError
               /\ (~schema_configured /\ ~condition_configured)
                     => last_call.returned = NoError

\* the schema check failed on content the predicate rejects as well, and the
\* schema's error was returned
C16_Witness ==
    /\ Validated(last_call) /\ mode = "json" /\ validator = "fails"
    /\ ~validation_schema_accepts(last_call.pre_content)
    /\ last_call.returned = SchemaError /\ d_error = SchemaError

\* C17: on every call of validate_content with a schema and a predicate
\* configured the predicate is invoked, also when the schema check failed.
C17_BothChecksRun ==
    (Validated(last_call) /\ schema_configured /\ condition_configured)
        => last_call.invoked

(***************************************************************************)
(* A session that may be abandoned: the operations that await, split at    *)
(* their awaits.  RequestModification awaits request_patch (the LLM's      *)
(* create_object) and then runs apply_patch_bundle, which contains no      *)
(* await; PatchTarget.reset_to_original_state rebuilds and then awaits     *)
(* validate_content, which awaits an async validation_condition.           *)
(***************************************************************************)
SuspensionPoints == {"awaiting_patch", "awaiting_condition"}

\* RequestModification.__call__ up to the await inside request_patch
RequestModificationCall ==
    /\ api = "driver" /\ Idle /\ pc = "idle"
    /\ pc' = "awaiting_patch"
    /\ UNCHANGED <<objVars, api, last_call, state_id, message_history, messages,
                   last_request, pending, raw_tool_data, outcome>>

\* create_object(schema=self.patch_schema) returns a bundle (or its validation
\* raises); await parent.apply_patch_bundle(patch)
RequestModificationResume ==
    /\ api = "driver" /\ pc = "awaiting_patch"
    /\ \E patches \in (IF mode = "str" THEN StrBatches ELSE JsonBatches) :
          /\ Offered(patches)
          /\ LET r == modify_state_with_patch(DriverState, patches)
             IN  /\ SetDriver(r.d)
                 /\ last_call' = CallRecord("apply", "request", patches,
                                            ~patch_schema_accepts(DriverState, patches), ~r.ok)
    /\ pc' = "idle"
    /\ UNCHANGED <<mode, backup_copy, d_error, targetVars, validator, api, state_id,
                   message_history, messages, last_request, pending, raw_tool_data, outcome>>

\* target.reset_to_original_state() up to the await inside validate_content
TargetResetCall ==
    /\ api = "target" /\ Idle /\ pc = "idle"
    /\ condition_configured
    /\ content' = backup_copy
    /\ iteration' = 0
    /\ t_map' = build_map(backup_copy)
    /\ t_annotated' = build_annotation(build_map(backup_copy))
    /\ pc' = "awaiting_condition"
    /\ UNCHANGED <<mode, original_state, backup_copy, d_map, d_annotated, d_error,
                   t_error, validator, api, last_call, state_id, message_history,
                   messages, last_request, pending, raw_tool_data, outcome>>

\* the condition returns: self.current_error = await self.validate_content()
TargetResetResume ==
    /\ api = "target" /\ pc = "awaiting_condition"
    /\ \E run \in validation_run(content) :
          /\ t_error' = run.returned
          /\ last_call' = TargetCallRecord("reset", "direct", <<>>, FALSE, FALSE, run)
    /\ pc' = "idle"
    /\ UNCHANGED <<mode, content, original_state, backup_copy, d_map, d_annotated,
                   d_error, t_map, t_annotated, iteration, validator, api, state_id,
                   message_history, messages, last_request, pending, raw_tool_data,
                   outcome>>

\* the outer task is cancelled while the session is suspended
Cancel ==
    /\ pc \in SuspensionPoints
    /\ pc' = "cancelled"
    /\ UNCHANGED <<objVars, api, last_call, state_id, message_history, messages,
                   last_request, pending, raw_tool_data, outcome>>

InitSession ==
    /\ InitObjects(Texts, Docs)
    /\ InitNoLoop
    /\ api \in {"driver", "target"}
    /\ api = "target" => mode = "str"
    /\ d_error = NoError
    /\ t_error = NoError
    /\ validator \in (IF api = "target" THEN {"fails", "free"} ELSE {"none"})
    /\ last_call = NoCall

NextSession ==
    \/ RequestModificationCall
    \/ RequestModificationResume
    \/ pc = "idle" /\ DriverReset
    \/ pc = "idle" /\ TargetApplyChecked
    \/ TargetResetCall
    \/ TargetResetResume
    \/ pc = "idle" /\ Return
    \/ Cancel

SpecSession == InitSession /\ [][NextSession]_vars

\* content, identifier map and annotated view agree with each other
DriverConsistent ==
    IF mode = "str"
    THEN content = assemble_text(d_map) /\ d_annotated = build_annotation(d_map)
    ELSE /\ d_map = build_json_annotation_and_map(content).map
         /\ d_annotated = build_json_annotation_and_map(content).ann
TargetConsistent ==
    t_map = build_map(content) /\ t_annotated = build_annotation(t_map)

\* C18: no suspension point lies inside a batch or a reset, so a session
\* abandoned at a suspension point leaves content, identifier map and
\* annotated view mutually consistent.
C18_CancellationSafety ==
    pc = "cancelled" => (IF api = "driver" THEN DriverConsistent ELSE TargetConsistent)

(***************************************************************************)
(* annotation_helpers.build_map / map_to_original_text on arbitrary text   *)
(***************************************************************************)
MaxTextLen == 4
TextChars == {"a", DOT, NL}
\* every text of at most MaxTextLen characters
RoundTripTexts == UNION {[1..n -> TextChars] : n \in 0..MaxTextLen}

\* map_to_original_text(map) / StrPatch.content_from_map(_, map)
map_to_original_text(m) == assemble_text(m)

InitRoundTrip ==
    /\ mode = "str"
    /\ content \in RoundTripTexts
    /\ original_state = content
    /\ backup_copy = content
    /\ d_map = <<>>
    /\ d_annotated = <<>>
    /\ t_map = <<>>
    /\ t_annotated = <<>>
    /\ iteration = 0
    /\ InitNoLoop
    /\ d_error = NoError
    /\ t_error = NoError
    /\ validator = "none"
    /\ api = "roundtrip"
    /\ last_call = NoCall

\* sent_map = build_map(text)
BuildMap ==
    /\ api = "roundtrip" /\ pc = "idle"
    /\ d_map' = build_map(content)
    /\ d_annotated' = build_annotation(build_map(content))
    /\ pc' = "built"
    /\ UNCHANGED <<mode, content, original_state, backup_copy, d_error, targetVars,
                   validator, api, last_call, state_id, message_history, messages,
                   last_request, pending, raw_tool_data, outcome>>

\* reconstructed = map_to_original_text(sent_map)
MapToOriginalText ==
    /\ api = "roundtrip" /\ pc = "built"
    /\ content' = map_to_original_text(d_map)
    /\ pc' = "done"
    /\ UNCHANGED <<mode, original_state, backup_copy, d_map, d_annotated, d_error,
                   targetVars, validator, api, last_call, state_id, message_history,
                   messages, last_request, pending, raw_tool_data, outcome>>

NextRoundTrip ==
    \/ BuildMap
    \/ MapToOriginalText

SpecRoundTrip == InitRoundTrip /\ [][NextRoundTrip]_vars

\* the sentences of every line of the text concatenate to the line exactly
IdentityPartition(text) ==
    \A i \in 1..Len(splitlines(text)) :
        concat(sents_or_text(splitlines(text)[i])) = splitlines(text)[i]

\* C19: for every text whose sentence segmentation is the identity partition,
\* reassembling the map built from the text yields the text exactly (the empty
\* text, texts with empty lines and texts ending in a line break included).
C19_RoundTrip ==
    (api = "roundtrip" /\ pc = "done" /\ IdentityPartition(original_state))
        => content = original_state

(***************************************************************************)
(* annotation_helpers.build_json_annotation_and_map on arbitrary documents *)
(***************************************************************************)
MaxWidth == 2   \* keys of an object, elements of an array
JsonKeys == {<<"a">>, <<"a", "/", "b">>, <<"~", "1">>}

\* the objects and arrays of at most MaxWidth members drawn from vals
ObjectsOver(vals) ==
    UNION {{JObj(kv) : kv \in {s \in [1..n -> [k : JsonKeys, v : vals]] :
                                  \A i, j \in 1..n : i < j => s[i].k # s[j].k}} :
           n \in 0..MaxWidth}
ArraysOver(vals) == UNION {{JArr(items) : items \in [1..n -> vals]} : n \in 0..MaxWidth}

ScalarDocs == {JVal("1")}
FlatDocs == ScalarDocs \cup ObjectsOver(ScalarDocs) \cup ArraysOver(ScalarDocs)
KeyPairs == {p \in JsonKeys \X JsonKeys : p[1] # p[2]}
\* two flat documents under two keys, or as the two elements of an array
NestedDocs ==
    FlatDocs \cup {JObj(<<KV(p[1], d), KV(p[2], e)>>) : p \in KeyPairs, d, e \in FlatDocs}
             \cup {JArr(<<d, e>>) : d, e \in FlatDocs}
\* {"a": [d, e], "~1": 1}: a key after an array of documents
SiblingDocs ==
    {JObj(<<KV(<<"a">>, JArr(<<d, e>>)), KV(<<"~", "1">>, JVal("1"))>>) : d, e \in FlatDocs}
\* every document nested at most twice, the documents with a key after a
\* nested array, and the test's {"a": 1, "b": {"c": [2, 3]}}
JsonMapDocs == NestedDocs \cup SiblingDocs \cup {Doc2}

InitJsonMap ==
    /\ mode = "json"
    /\ content \in JsonMapDocs
    /\ original_state = content
    /\ backup_copy = content
    /\ d_map = <<>>
    /\ d_annotated = <<>>
    /\ t_map = <<>>
    /\ t_annotated = <<>>
    /\ iteration = 0
    /\ InitNoLoop
    /\ d_error = NoError
    /\ t_error = NoError
    /\ validator = "none"
    /\ api = "jsonmap"
    /\ last_call = NoCall

\* annotated, attr_map = build_json_annotation_and_map(data)
BuildJsonMap ==
    /\ api = "jsonmap" /\ pc = "idle"
    /\ d_map' = build_json_annotation_and_map(content).map
    /\ d_annotated' = build_json_annotation_and_map(content).ann
    /\ pc' = "built"
    /\ UNCHANGED <<mode, content, original_state, backup_copy, d_error, targetVars,
                   validator, api, last_call, state_id, message_history, messages,
                   last_request, pending, raw_tool_data, outcome>>

NextJsonMap == BuildJsonMap

SpecJsonMap == InitJsonMap /\ [][NextJsonMap]_vars

\* the object keys of a document in depth-first document order, each as the
\* reference tokens leading to it (keys unescaped, array positions zero-based)
RECURSIVE KeyPaths(_, _)
RECURSIVE KeyPathsOfMembers(_, _, _)
KeyPaths(doc, here) ==
    IF doc.t \in {"obj", "arr"} THEN KeyPathsOfMembers(doc, 1, here) ELSE <<>>
KeyPathsOfMembers(doc, i, here) ==
    IF doc.t = "obj"
    THEN IF i > Len(doc.kv) THEN <<>>
         ELSE <<Append(here, doc.kv[i].k)>>
              \o KeyPaths(doc.kv[i].v, Append(here, doc.kv[i].k))
              \o KeyPathsOfMembers(doc, i + 1, here)
    ELSE IF i > Len(doc.items) THEN <<>>
         ELSE KeyPaths(doc.items[i], Append(here, IntToStr(i - 1)))
              \o KeyPathsOfMembers(doc, i + 1, here)

\* C20: the map builder numbers the object keys, and only them, 1..N in
\* depth-first document order; each id maps to the RFC 6901 pointer of its key
\* (array positions zero-based), no two ids to the same path; and
\* {a:1, b:{c:[2,3]}} yields {1:/a, 2:/b, 3:/b/c}.
C20_JsonIdsInDocumentOrder ==
    (api = "jsonmap" /\ pc = "built")
        => LET paths == KeyPaths(content, <<>>)
           IN  /\ DOMAIN d_map = 1..Len(paths)
               /\ \A i \in 1..Len(paths) : pointer_parts(d_map[i]) = paths[i]
               /\ \A i, j \in 1..Len(paths) : i # j => d_map[i] # d_map[j]
               /\ content = Doc2
                    => d_map = <<<<"/", "a">>, <<"/", "b">>, <<"/", "b", "/", "c">>>>

\* a key holding '/' whose value is an object, followed by a sibling key: the
\* sibling is numbered after the whole subtree
C20_Witness ==
    /\ api = "jsonmap" /\ pc = "built"
    /\ content = JObj(<<KV(<<"a", "/", "b">>, JObj(<<KV(<<"~", "1">>, JVal("1"))>>)),
                        KV(<<"a">>, JVal("1"))>>)
    /\ d_map = <<<<"/", "a", "~", "1", "b">>,
                 <<"/", "a", "~", "1", "b", "/", "~", "0", "1">>,
                 <<"/", "a">>>>

(***************************************************************************)
(* Single string patches on the driver's map (Spec)                        *)
(***************************************************************************)
\* the values of f in key order, numbered 1..k
Renumbered(f) ==
    LET keys == SortedKeys(DOMAIN f) IN [i \in 1..Len(keys) |-> f[keys[i]]]

\* the map m without the sentences tids names: sentences renumbered in every
\* line, emptied lines dropped, lines renumbered
ExpectedDelete(m, tids) ==
    LET rest == MapWithout(m, tids)
        lines == SortedKeys(DOMAIN rest)
    IN  [i \in 1..Len(lines) |-> Renumbered(rest[lines[i]])]

\* the call applied the single patch of the given type, its tids distinct and
\* in the map, to a map with lines 1..n and sentences 1..k
SinglePatch(call, type) ==
    /\ mode = "str" /\ call.op = "apply" /\ Len(call.patches) = 1
    /\ call.patches[1].operation.type = type
    /\ DenseKeys(call.pre_map)
    /\ call.patches[1].tids # <<>> /\ tids_in_map(call.pre_map, call.patches[1].tids)
    /\ Cardinality(TidSet(call.patches[1])) = Len(call.patches[1].tids)

\* C21: one Delete patch on distinct existing tids removes exactly those
\* sentences; the sentences left in a line keep their order and are numbered
\* 1..k, a line left empty is removed, the lines left keep their order and are
\* numbered 1..m, and untouched lines keep their content.
C21_DeleteRenumbering ==
    SinglePatch(last_call, "delete")
        => /\ ~last_call.raised
           /\ d_map = ExpectedDelete(last_call.pre_map, TidSet(last_call.patches[1]))
           /\ DenseKeys(d_map)

\* both sentences of line 1 of a three-line map were deleted: two lines left
C21_Witness ==
    /\ SinglePatch(last_call, "delete")
    /\ Cardinality(DOMAIN last_call.pre_map) = 3
    /\ last_call.patches[1].tids = <<<<1, 1>>, <<1, 2>>>>
    /\ DOMAIN d_map = 1..2 /\ d_map[1] = last_call.pre_map[2]

\* C22: InsertAfter whose last tid lies on line a of a map with lines 1..n
\* yields lines 1..n+1: lines 1..a unchanged, the inserted text as line a+1,
\* every former line j > a now line j+1 with its content; the sentence
\* component of the anchor tid has no effect.
C22_InsertShiftsLines ==
    SinglePatch(last_call, "insert_after")
        => LET patch == last_call.patches[1]
               a == patch.tids[Len(patch.tids)][1]
               n == Cardinality(DOMAIN last_call.pre_map)
           IN  /\ ~last_call.raised
               /\ DOMAIN d_map = 1..(n + 1)
               /\ \A l \in 1..a : d_map[l] = last_call.pre_map[l]
               /\ concat(line_items(d_map[a + 1], SortedKeys(DOMAIN d_map[a + 1])))
                     = patch.operation.text
               /\ \A j \in (a + 1)..n : d_map[j + 1] = last_call.pre_map[j]

\* anchored at the second sentence of line 1 of a two-line map: the former
\* line 2 is line 3
C22_Witness ==
    /\ SinglePatch(last_call, "insert_after")
    /\ last_call.patches[1].tids = <<<<1, 2>>>>
    /\ Cardinality(DOMAIN last_call.pre_map) = 2
    /\ d_map[3] = last_call.pre_map[2]
    /\ d_map[2] = <<NewLineText>>

(***************************************************************************)
(* Single JSON patches on the live document (Spec)                         *)
(***************************************************************************)
\* the reference tokens of every node of a document
RECURSIVE NodePaths(_, _)
NodePaths(doc, here) ==
    {here} \cup
    (IF doc.t = "obj"
     THEN UNION {NodePaths(doc.kv[i].v, Append(here, doc.kv[i].k)) : i \in 1..Len(doc.kv)}
     ELSE IF doc.t = "arr"
     THEN UNION {NodePaths(doc.items[i], Append(here, IntToStr(i - 1))) : i \in 1..Len(doc.items)}
     ELSE {})

Prefix(q, p) == Len(q) <= Len(p) /\ SubSeq(p, 1, Len(q)) = q
Front(p) == SubSeq(p, 1, Len(p) - 1)

\* the members of a container: the keys of an object in order, the length of an array
Shape(v) ==
    IF v.t = "obj" THEN [t |-> "obj", keys |-> [i \in 1..Len(v.kv) |-> v.kv[i].k]]
    ELSE IF v.t = "arr" THEN [t |-> "arr", n |-> Len(v.items)]
    ELSE [t |-> "leaf"]

\* every container above p has the members it had
SameShapeAbove(pre, post, p) ==
    \A n \in 0..(Len(p) - 1) :
        Shape(ValueAt(pre, SubSeq(p, 1, n))) = Shape(ValueAt(post, SubSeq(p, 1, n)))

\* every node beside p has the value it had
SameOutside(pre, post, p) ==
    \A q \in NodePaths(pre, <<>>) \cup NodePaths(post, <<>>) :
        (~Prefix(p, q) /\ ~Prefix(q, p)) => ValueAt(pre, q) = ValueAt(post, q)

\* _apply_patch was called with a patch of the kinds the property names, its
\* attribute id in the map, its path naming a key of the document and its item
\* id an element of the array there
AddressedJsonPatch(call) ==
    /\ mode = "json" /\ call.op = "apply_patch"
    /\ call.patches[1].a_id \in DOMAIN call.pre_map
    /\ ValueAt(call.pre_content, pointer_parts(call.pre_map[call.patches[1].a_id])) # JNull
    /\ call.patches[1].i_id # NoItem
          => ItemAddressed(call.pre_content, call.pre_map, call.patches[1])
    /\ call.patches[1].op = "add" => call.patches[1].i_id # NoItem
    /\ call.patches[1].op = "replace" => call.patches[1].i_id = NoItem

\* C23: a JSON patch acts on the live document at map[a_id], extended by
\* i_id - 1 when an item id is given: replace sets the value there, remove
\* with i_id = k deletes the k-th element, remove without i_id deletes the
\* key, add with i_id = k makes the value the k-th element; every other part
\* of the document is unchanged.
C23_JsonPatchApplication ==
    AddressedJsonPatch(last_call)
        => LET patch == last_call.patches[1]
               pre == last_call.pre_content
               p == pointer_parts(last_call.pre_map[patch.a_id])
               old == ValueAt(pre, p)
               new == ValueAt(content, p)
               k == patch.i_id[1]
           IN  /\ ~last_call.raised
               /\ SameOutside(pre, content, p)
               /\ IF patch.i_id = NoItem
                  THEN IF patch.op = "replace"
                       THEN new = patch.value /\ SameShapeAbove(pre, content, p)
                       ELSE /\ SameShapeAbove(pre, content, Front(p))
                            /\ LET keys == Shape(ValueAt(pre, Front(p))).keys
                                   j == CHOOSE i \in 1..Len(keys) : keys[i] = p[Len(p)]
                               IN  Shape(ValueAt(content, Front(p))).keys = RemoveAt(keys, j)
                  ELSE /\ SameShapeAbove(pre, content, p)
                       /\ new.t = "arr"
                       /\ new.items =
                            CASE patch.op = "remove" ->
                                     [i \in 1..(Len(old.items) - 1) |->
                                         IF i < k THEN old.items[i] ELSE old.items[i + 1]]
                              [] patch.op = "add" ->
                                     [i \in 1..(Len(old.items) + 1) |->
                                         IF i < k THEN old.items[i]
                                         ELSE IF i = k THEN patch.value ELSE old.items[i - 1]]

\* remove with i_id = 1 on ["1", "2"] left ["2"], the key "a" untouched
C23_Witness ==
    /\ AddressedJsonPatch(last_call)
    /\ last_call.pre_content = Doc1
    /\ last_call.patches[1] = JsonPatch("remove", 2, Item(1), JNull)
    /\ content = JObj(<<KV(<<"a">>, JVal("x")), KV(<<"b">>, JArr(<<JVal("2")>>))>>)

\* C24: in JSON mode apply_patch_bundle applies the patches of a batch in
\* exactly the order the caller gave them, and a batch of valid JSON patches
\* is applied completely.
C24_JsonBatchInOrder ==
    (/\ mode = "json" /\ last_call.op = "apply" /\ last_call.patches # <<>>
     /\ MapCurrent(last_call)
     /\ check_json_ids(last_call.pre_map, last_call.patches)
     /\ apply_json_patches(last_call.pre_content, last_call.pre_map, last_call.patches).ok)
        => /\ ~last_call.raised
           /\ content = apply_json_patches(last_call.pre_content, last_call.pre_map,
                                           last_call.patches).doc

(***************************************************************************)
(* The order of a string batch (Spec)                                      *)
(***************************************************************************)
\* bundle = driver.patch_schema(patches=patches): ModdedPatchBundle has the
\* validator _check_ids and no other; its patches field is the list passed
ModdedPatchBundle(m, patches) ==
    [ok |-> IF mode = "str" THEN check_str_ids(m, patches) ELSE check_json_ids(m, patches),
     patches |-> patches]

\* (priority, -anchor_line) of p is not above that of q
KeyLeq(p, q) ==
    \/ priority(p.operation.type) < priority(q.operation.type)
    \/ /\ priority(p.operation.type) = priority(q.operation.type)
       /\ anchor_line_of(p) >= anchor_line_of(q)

InBatchOrder(patches) ==
    \A i, j \in 1..Len(patches) : i < j => KeyLeq(patches[i], patches[j])

\* C25: the bundle the driver's patch schema returns for a string batch lists
\* its patches ordered by (priority, -anchor_line), Replace < Delete <
\* InsertAfter, whatever order the caller passed; and that is the order
\* apply_patch_bundle applies them in.
C25_StringBatchOrder ==
    (/\ mode = "str" /\ last_call.op = "apply" /\ last_call.route = "checked"
     /\ ~last_call.rejected)
        => /\ InBatchOrder(sort_patches(last_call.patches).patches)
           /\ InBatchOrder(ModdedPatchBundle(last_call.pre_map, last_call.patches).patches)

(***************************************************************************)
(* Constructing patches: JsonPatch(...) and StrPatch(...)                  *)
(***************************************************************************)
\* a keyword argument that was not passed
Absent == [t |-> "absent"]

\* pydantic's field validation of JsonPatch: op, a_id and value are required
\* (value: ... = Field(...)), i_id defaults to None, None is a value of value
json_patch_fields_valid(args) == args.value # Absent

\* JsonPatch._check_ops
check_ops(args) ==
    /\ ~(args.op \in {"add", "replace"} /\ args.value = JNull)
    /\ ~(args.op = "remove" /\ args.value # JNull)
    /\ ~(args.op = "replace" /\ args.i_id # NoItem)

\* JsonPatch(op=..., a_id=..., i_id=..., value=...): does it raise
json_patch_raises(args) == ~json_patch_fields_valid(args) \/ ~check_ops(args)

\* tid.split("_")
RECURSIVE split_underscore(_)
split_underscore(tid) ==
    LET i == IndexOf(tid, "_")
    IN  IF i = 0 THEN <<tid>>
        ELSE <<SubSeq(tid, 1, i - 1)>> \o split_underscore(SubSeq(tid, i + 1, Len(tid)))

\* int(text) of a text of the characters 0-9 and '-': it raises unless the text
\* is digits after an optional sign
int_digits(text) == IF text # <<>> /\ text[1] = "-" THEN Tail(text) ELSE text
int_raises(text) ==
    \/ int_digits(text) = <<>>
    \/ \E i \in 1..Len(int_digits(text)) : array_index(<<int_digits(text)[i]>>) < 0
RECURSIVE int_magnitude(_)
int_magnitude(digits) ==
    IF digits = <<>> THEN 0
    ELSE 10 * int_magnitude(SubSeq(digits, 1, Len(digits) - 1))
         + array_index(<<digits[Len(digits)]>>)
int_value(text) ==
    IF text[1] = "-" THEN 0 - int_magnitude(int_digits(text)) ELSE int_magnitude(text)

\* l_str, s_str = tid.split("_"); (int(l_str), int(s_str)): does it raise
tid_raises(tid) ==
    \/ Len(split_underscore(tid)) # 2
    \/ int_raises(split_underscore(tid)[1])
    \/ int_raises(split_underscore(tid)[2])

\* a _parse_tids that lets an empty tid list pass
parse_tids_allow_empty(tids) ==
    IF \E i \in 1..Len(tids) : tid_raises(tids[i]) THEN [ok |-> FALSE, parsed |-> <<>>]
    ELSE [ok |-> TRUE,
          parsed |-> [i \in 1..Len(tids) |->
                        <<int_value(split_underscore(tids[i])[1]),
                          int_value(split_underscore(tids[i])[2])>>]]

\* StrPatch._parse_tids
parse_tids(tids) ==
    IF tids = <<>> THEN [ok |-> FALSE, parsed |-> <<>>]
    ELSE IF \E i \in 1..Len(tids) : tid_raises(tids[i]) THEN [ok |-> FALSE, parsed |-> <<>>]
    ELSE [ok |-> TRUE,
          parsed |-> [i \in 1..Len(tids) |->
                        <<int_value(split_underscore(tids[i])[1]),
                          int_value(split_underscore(tids[i])[2])>>]]

MaxTidLen == 4
TidChars == {"1", "2", "_", "x", "-"}
TidTexts == UNION {[1..n -> TidChars] : n \in 0..MaxTidLen}
PairTids == {<<"1", "_", "1">>, <<"2", "_", "1", "2">>, <<"x">>, <<"1", "_">>}
TidLists == {<<>>} \cup {<<t>> : t \in TidTexts} \cup {<<t, u>> : t, u \in PairTids}

JsonPatchArgs ==
    [op : {"add", "remove", "replace"}, a_id : 0..2, i_id : {NoItem, Item(0), Item(1)},
     value : {Absent, JNull, JVal("y")}]

\* JsonPatch(**args)
ConstructJsonPatch ==
    /\ api = "construct" /\ Idle
    /\ \E args \in JsonPatchArgs :
          last_call' = [op |-> "JsonPatch", args |-> args, raised |-> json_patch_raises(args)]
    /\ UNCHANGED <<objVars, api, loopVars>>

\* StrPatch(tids=tids, operation=DeleteOp())
ConstructStrPatch ==
    /\ api = "construct" /\ Idle
    /\ \E tids \in TidLists :
          last_call' = [op |-> "StrPatch", tids |-> tids, raised |-> ~parse_tids(tids).ok,
                        parsed_tids |-> parse_tids(tids).parsed]
    /\ UNCHANGED <<objVars, api, loopVars>>

InitConstruct ==
    /\ InitObjects(Texts, Docs)
    /\ InitNoLoop
    /\ d_error = NoError
    /\ t_error = NoError
    /\ validator = "none"
    /\ api = "construct"
    /\ last_call = NoCall

NextConstruct ==
    \/ ConstructJsonPatch
    \/ ConstructStrPatch
    \/ Return

SpecConstruct == InitConstruct /\ [][NextConstruct]_vars

\* C26: constructing a JsonPatch is rejected when op is add or replace and the
\* value is absent or null, when op is remove and a value is given, and when
\* op is replace and an item id is given; every other combination is accepted.
C26_JsonOperandRules ==
    last_call.op = "JsonPatch"
        => (last_call.raised
              <=> \/ last_call.args.op \in {"add", "replace"}
                     /\ last_call.args.value \in {Absent, JNull}
                  \/ last_call.args.op = "remove" /\ last_call.args.value \notin {Absent, JNull}
                  \/ last_call.args.op = "replace" /\ last_call.args.i_id # NoItem)

\* the text of an integer: digits after an optional sign
IsIntegerText(text) ==
    \E sign \in {<<>>, <<"-">>} :
        /\ Len(text) > Len(sign) /\ SubSeq(text, 1, Len(sign)) = sign
        /\ \A i \in (Len(sign) + 1)..Len(text) : text[i] \in {Digits[d] : d \in 1..10}
\* a tid of the form <integer>_<integer>
TidForm(tid) ==
    \E k \in 1..Len(tid) :
        /\ tid[k] = "_"
        /\ IsIntegerText(SubSeq(tid, 1, k - 1))
        /\ IsIntegerText(SubSeq(tid, k + 1, Len(tid)))

\* the decimal text of an integer
RECURSIVE NatText(_)
NatText(n) == IF n < 10 THEN IntToStr(n) ELSE NatText(n \div 10) \o IntToStr(n % 10)
IntText(n) == IF n < 0 THEN <<"-">> \o NatText(0 - n) ELSE NatText(n)

\* C27: a StrPatch is rejected at construction when its tid list is empty or
\* when a tid is not of the form <integer>_<integer>; otherwise its parsed
\* targets are the (line, sentence) pairs of its tids in the given order.
C27_StrPatchConstruction ==
    last_call.op = "StrPatch"
        => /\ last_call.raised
                <=> \/ last_call.tids = <<>>
                    \/ \E i \in 1..Len(last_call.tids) : ~TidForm(last_call.tids[i])
           /\ ~last_call.raised
                => /\ Len(last_call.parsed_tids) = Len(last_call.tids)
                   /\ \A i \in 1..Len(last_call.tids) :
                         IntText(last_call.parsed_tids[i][1]) \o <<"_">>
                            \o IntText(last_call.parsed_tids[i][2]) = last_call.tids[i]

\* the tids ["1_1", "2_12"] were parsed to (1, 1), (2, 12)
C27_Witness ==
    /\ last_call.op = "StrPatch" /\ ~last_call.raised
    /\ last_call.tids = <<<<"1", "_", "1">>, <<"2", "_", "1", "2">>>>
    /\ last_call.parsed_tids = <<<<1, 1>>, <<2, 12>>>>

(***************************************************************************)
(* The turns of run_patching_loop (SpecLoop)                               *)
(***************************************************************************)
\* C28: in every loop turn validate_content is called exactly once, after all
\* the tool calls returned in that turn have been executed and never between
\* two of them, and its result is the error embedded in the debugging message
\* of the next turn.
C28_ValidationOncePerTurn ==
    [][/\ (pc = "dispatch" /\ pending = <<>>) => pc' = "validating"
       /\ pc = "validating"
             => /\ pc' = "head"
                /\ last_call'.op = "validate"
                /\ d_error' \in validate_content(content)
       /\ last_call' # last_call => pc = "validating" /\ pending = <<>>
       /\ (pc = "head" /\ pc' = "dispatch")
             => last_request'[Len(last_request')].error = d_error]_vars

\* a tool call the dispatch is to execute: it names a bound tool, its arguments
\* decode, the patches of a patch tool validate and apply, and the code of a
\* caller's tool does not raise
Executable(call) ==
    /\ call.name \in BoundTools
    /\ call.decodable
    /\ call.action # "raise"
    /\ call.action = "apply" => modify_state_with_patch(DriverState, call.patches).ok

\* C29: every tool call of the LLM's response that names a bound tool with
\* decodable arguments (and, for a patch tool, patches that validate) is
\* executed exactly once, in the order the calls were returned and without
\* raising, and its textual result is appended to the history paired with the
\* call, after the turn's placeholder debugging message and assistant message.
C29_ToolDispatch ==
    [][/\ (pc = "dispatch" /\ pending # <<>> /\ Executable(Head(pending)))
             => /\ pc' = "dispatch"
                /\ pending' = Tail(pending)
                /\ Len(raw_tool_data') = Len(raw_tool_data) + 1
                /\ raw_tool_data'[Len(raw_tool_data')][1] = Head(pending)
       /\ (pc = "dispatch" /\ pending = <<>> /\ raw_tool_data # <<>>)
             => /\ pc' = "validating"
                /\ Len(messages') >= Len(messages) + Len(raw_tool_data)
                /\ \A i \in 1..Len(raw_tool_data) :
                      messages'[Len(messages') - Len(raw_tool_data) + i].tool_calls
                          = <<raw_tool_data[i][1]>>]_vars

(***************************************************************************)
(* A batch that raises part-way (SpecTarget)                               *)
(***************************************************************************)
\* C30: when apply_patches raises part-way through a batch, the identifier map
\* and the annotated view are those of before the call and still agree with
\* the content, so a later batch is validated and applied against the state
\* of before the failure.
C30_FailedBatchLeavesMap ==
    (last_call.op = "apply" /\ last_call.raised /\ ~last_call.rejected)
        => /\ content = last_call.pre_content
           /\ t_map = last_call.pre_map
           /\ TargetConsistent

(***************************************************************************)
(* A caller applying batches of InsertAfter patches                        *)
(***************************************************************************)
MaxInsertLines == 5   \* a batch is not offered when it would grow the map beyond this

OtherLineText == <<"Other line", DOT>>

InsertAfterPatches ==
    {StrPatch(ts, InsertAfterOp(text)) :
        ts \in {<<<<1, 1>>>>, <<<<2, 1>>>>, <<<<3, 1>>>>, <<<<2, 1>>, <<1, 2>>>>},
        text \in {NewLineText, OtherLineText}}

InsertBatches ==
    {<<p>> : p \in InsertAfterPatches}
    \cup {<<p, q>> : p, q \in InsertAfterPatches}
    \cup {<<p, Replace11, q>> : p, q \in InsertAfterPatches}

\* bundle = driver.patch_schema(patches=patches); driver.apply_patch_bundle(bundle)
\* with InsertAfter patches (and a Replace)
DriverApplyInserts ==
    /\ api = "inserts" /\ mode = "str" /\ Idle
    /\ \E patches \in InsertBatches :
          /\ Cardinality(DOMAIN d_map) + InsertCount(patches) <= MaxInsertLines
          /\ LET r == modify_state_with_patch(DriverState, patches)
             IN  /\ SetDriver(r.d)
                 /\ last_call' = CallRecord("apply", "checked", patches,
                                            ~patch_schema_accepts(DriverState, patches), ~r.ok)
    /\ UNCHANGED <<mode, backup_copy, d_error, targetVars, validator, api, loopVars>>

InitInserts ==
    /\ InitObjects(Texts, Docs)
    /\ mode = "str"
    /\ InitNoLoop
    /\ d_error = NoError
    /\ t_error = NoError
    /\ validator = "none"
    /\ api = "inserts"
    /\ last_call = NoCall

NextInserts ==
    \/ DriverApplyInserts
    \/ Return

SpecInserts == InitInserts /\ [][NextInserts]_vars

\* the line an InsertAfter text becomes
LineOf(text) == [sid \in 1..Len(sents_or_text(text)) |-> sents_or_text(text)[sid]]
\* the line of the pre-batch map an InsertAfter is anchored at
AnchorOf(patch) == patch.tids[Len(patch.tids)][1]
\* the InsertAfter patches of a batch anchored at line l, above line l
AnchoredAt(patches, l) == {i \in OfType(patches, "insert_after") : AnchorOf(patches[i]) = l}
AnchoredAbove(patches, l) == {i \in OfType(patches, "insert_after") : AnchorOf(patches[i]) < l}
\* the pre-batch map with the Replace patches of the batch applied
RECURSIVE ReplacesOf(_)
ReplacesOf(patches) ==
    IF patches = <<>> THEN <<>>
    ELSE (IF patches[1].operation.type = "replace" THEN <<patches[1]>> ELSE <<>>)
         \o ReplacesOf(Tail(patches))

\* C31: in a batch with several InsertAfter patches and no Delete, applied in
\* the policy order, every inserted line comes right after the line its anchor
\* named in the pre-batch map (with only lines inserted at the same anchor in
\* between): an applied InsertAfter does not move the anchor of a pending one.
C31_InsertInsertSafety ==
    (/\ mode = "str" /\ last_call.op = "apply" /\ MapCurrent(last_call)
     /\ DenseKeys(last_call.pre_map)
     /\ OnlyTypes(last_call.patches, {"insert_after", "replace"})
     /\ Cardinality(OfType(last_call.patches, "insert_after")) >= 2
     /\ check_str_ids(last_call.pre_map, last_call.patches))
        => LET patches == last_call.patches
               base == apply_str_patches(last_call.pre_map, ReplacesOf(patches)).map
               n == Cardinality(DOMAIN last_call.pre_map)
               pos(l) == l + Cardinality(AnchoredAbove(patches, l))
           IN  /\ ~last_call.raised
               /\ DOMAIN d_map = 1..(n + Cardinality(OfType(patches, "insert_after")))
               /\ \A l \in 1..n :
                     /\ d_map[pos(l)] = base[l]
                     /\ \A text \in {NewLineText, OtherLineText} :
                           Cardinality({j \in 1..Cardinality(AnchoredAt(patches, l)) :
                                           d_map[pos(l) + j] = LineOf(text)})
                             = Cardinality({i \in AnchoredAt(patches, l) :
                                               patches[i].operation.text = text})
               /\ content = assemble_text(d_map)

\* 'New line.' after line 1 and 'Other line.' after line 2, given top-down,
\* on 'Hello world.Bye.' / 'This is a test.'
C31_Witness ==
    /\ mode = "str" /\ last_call.op = "apply" /\ ~last_call.raised
    /\ last_call.pre_content = Text2
    /\ last_call.patches = <<StrPatch(<<<<1, 1>>>>, InsertAfterOp(NewLineText)),
                             StrPatch(<<<<2, 1>>>>, InsertAfterOp(OtherLineText))>>
    /\ content = <<"Hello", " world", DOT, "Bye", DOT, NL, "New line", DOT, NL,
                   "This is a test", DOT, NL, "Other line", DOT>>

(***************************************************************************)
(* StrPatch.apply_patch with a ReplaceOp, on the maps of short texts       *)
(***************************************************************************)
MaxSentenceLen == 4   \* a Replace is not offered when it would grow a sentence beyond this

\* 'aa.a', 'aaa' and 'a.' / 'a.'
ReplaceTexts == {<<"a", "a", DOT, "a">>, <<"a", "a", "a">>, <<"a", DOT, NL, "a", DOT>>}

ReplaceFramePatches ==
    {StrPatch(ts, ReplaceOp(pat, repl)) :
        ts \in {<<<<1, 1>>>>, <<<<1, 2>>>>, <<<<2, 1>>, <<1, 1>>>>},
        pat \in {<<"a">>, <<"a", "a">>, <<DOT>>, <<>>},
        repl \in {<<>>, <<"b">>, <<"a", "a">>}}

\* patch.apply_patch(target) with a Replace patch
ApplyReplacePatch ==
    /\ api = "replace" /\ Idle
    /\ \E patch \in ReplaceFramePatches :
          LET r == apply_str_patch(t_map, patch)
          IN  /\ \A l \in DOMAIN r.map : \A sid \in DOMAIN r.map[l] :
                    Len(r.map[l][sid]) <= MaxSentenceLen
              /\ t_map' = r.map
              /\ last_call' = TargetCallRecord("apply_patch", "direct", <<patch>>,
                                               FALSE, ~r.ok, NoRun)
    /\ UNCHANGED <<mode, content, original_state, backup_copy, d_map, d_annotated, d_error,
                   t_annotated, iteration, t_error, validator, api, loopVars>>

InitReplace ==
    /\ InitObjects(ReplaceTexts, Docs)
    /\ mode = "str"
    /\ InitNoLoop
    /\ d_error = NoError
    /\ t_error = NoError
    /\ validator = "none"
    /\ api = "replace"
    /\ last_call = NoCall

NextReplace ==
    \/ ApplyReplacePatch
    \/ Return

SpecReplace == InitReplace /\ [][NextReplace]_vars

\* the first occurrence of pat in s at or after position from, 0 when none
NextMatch(s, pat, from) ==
    IF \E i \in from..Len(s) : MatchAt(s, pat, i)
    THEN CHOOSE i \in from..Len(s) :
             MatchAt(s, pat, i) /\ \A j \in from..(i - 1) : ~MatchAt(s, pat, j)
    ELSE 0

\* s from position from on, with the occurrences of the non-empty pat, taken
\* from the left, replaced by repl
RECURSIVE Substituted(_, _, _, _)
Substituted(s, pat, repl, from) ==
    LET i == NextMatch(s, pat, from)
    IN  IF i = 0 THEN SubSeq(s, from, Len(s))
        ELSE SubSeq(s, from, i - 1) \o repl \o Substituted(s, pat, repl, i + Len(pat))

\* s with repl put before every character and at the end
Interleaved(s, repl) == concat([i \in 1..Len(s) |-> repl \o <<s[i]>>]) \o repl

C33_IterationCounter ==
    /\ iteration = 0
    /\ [][IF last_call'.op = "apply" /\ ~last_call'.rejected /\ last_call.op = "none"
          THEN iteration' = iteration + (IF last_call'.raised THEN 0 ELSE 1)
          ELSE IF last_call'.op = "reset" /\ last_call.op = "none"
          THEN iteration' = 0
          ELSE iteration' = iteration]_vars

\* a batch raised after a batch had completed: the counter is still one
C33_Witness ==
    /\ last_call.op = "apply" /\ last_call.raised /\ ~last_call.rejected
    /\ iteration = 1

\* C34: when PatchTarget.reset_to_original_state returns, current_error is
\* what validate_content returned for the restored content, and the map and
\* the annotated view are those built from the restored content.
C34_ResetRefreshesError ==
    (api = "target" /\ last_call.op = "reset")
        => /\ content = backup_copy
           /\ last_call.returned \in validate_content(content)
           /\ t_error = last_call.returned
           /\ t_map = build_map(content)
           /\ t_annotated = build_annotation(build_map(content))

\* a reset after a completed batch: the content is the backup again and the
\* stored error is the one the failing condition gives
C34_Witness ==
    /\ api = "target" /\ last_call.op = "reset"
    /\ last_call.pre_content # backup_copy /\ content = backup_copy
    /\ validator = "fails" /\ t_error = "E1"

(***************************************************************************)
(* JSON batches and the identifier map (Spec)                              *)
(***************************************************************************)
\* C35: in JSON mode every patch of a batch finds its path in the identifier
\* map of the start of the batch, and the map is rebuilt from the document
\* once, after the last patch: after a batch whose patches apply, map and
\* annotated view are those of the document the patches give when every
\* attribute id is resolved in the pre-batch map.
C35_JsonBatchMap ==
    (/\ mode = "json" /\ last_call.op = "apply" /\ last_call.patches # <<>>
     /\ MapCurrent(last_call)
     /\ check_json_ids(last_call.pre_map, last_call.patches)
     /\ apply_json_patches(last_call.pre_content, last_call.pre_map, last_call.patches).ok)
        => LET built == build_json_annotation_and_map(
                            apply_json_patches(last_call.pre_content, last_call.pre_map,
                                               last_call.patches).doc)
           IN  /\ ~last_call.raised
               /\ d_map = built.map
               /\ d_annotated = built.ann

(***************************************************************************)
(* The loop and the error stored on the target (SpecLoop)                  *)
(***************************************************************************)
\* C36: whenever run_patching_loop returns normally the PatchTarget's own
\* current_error is null: after each validation of the loop the error stored
\* on the target is the driver's current error.
C36_ErrorAgreement ==
    /\ (pc = "done" /\ outcome = Returned /\ state_id >= 1) => t_error = NoError
    /\ (pc = "head" /\ state_id >= 1) => t_error = d_error

\* the positions of the assistant message of turn sid in a message list
AssistantPositions(msgs, sid) ==
    {i \in 1..Len(msgs) : msgs[i].role = "assistant" /\ msgs[i].turn = sid}

\* C37: in the message list of every LLM request of the loop, the assistant
\* message returned by each earlier turn appears exactly once.
C37_NoDuplicateAssistant ==
    \A sid \in 0..MaxTurns :
        /\ Cardinality(AssistantPositions(last_request, sid)) <= 1
        /\ (last_request # <<>> /\ sid < last_request[Len(last_request)].turn)
              => Cardinality(AssistantPositions(last_request, sid)) = 1

\* C38: run_patching_loop never changes the message_history list the caller
\* passed, however many turns it makes and however it ends; its messages go to
\* a list of its own that only grows: no message is removed or rewritten.
C38_HistoryUntouched ==
    [][/\ message_history' = message_history
       /\ pc # "idle"
             => /\ Len(messages') >= Len(messages)
                /\ SubSeq(messages', 1, Len(messages)) = messages]_vars

\* the loop was aborted in its second turn: the caller's list is as passed
\* and the loop's list holds the prompt and the messages of two turns
C38_Witness ==
    /\ pc = "raised" /\ state_id = 2
    /\ message_history = <<UserMessage>>
    /\ Len(messages) >= 6
    /\ messages[1] = UserMessage /\ messages[2] = LoopPrompt

====
